---- MODULE Spec2Model ----
(***************************************************************************)
(* Model of the property analysis agent (backend/app/property_agent.py),   *)
(* the header count of backend/app/database.py and the chat endpoint of    *)
(* backend/app/main.py with the router of backend/app/services.py.         *)
(*                                                                         *)
(* Text.  A Python str is modelled as a tuple of one-character tokens.     *)
(* An ASCII character is its own token ("1", "-", "L", " "); any other     *)
(* character is the token "uXXXX" of its code point, so u770C is the       *)
(* prefecture suffix "ken", u5E02 the city suffix "shi", u533A the ward    *)
(* suffix "ku".  Substring tests (Python `in`, SQL LIKE '%x%'), str.split, *)
(* str.replace and the regular expressions are computed on these tuples.   *)
(***************************************************************************)
EXTENDS Integers, Sequences, FiniteSets, TLC

VARIABLES
    db,              \* rows of BUY_data_integrated, in rowid order
    db_error,        \* sqlite3 raises on every statement (the table or the file is unusable)
    jageocoder,      \* JAGEOCODER_AVAILABLE (fixed when the module is imported)
    session_data,    \* PropertyAnalysisAgent.session_data
    chat_sessions,   \* ChatService.sessions: session id -> message log
    last,            \* what the last operation returned (and the locals it returned from)
    pc               \* the caller: "ready" before its call, "done" once it has the reply

vars == <<db, db_error, jageocoder, session_data, chat_sessions, last, pc>>

----------------------------------------------------------------------------
(* Text helpers *)

\* F applied to the value of e (a local variable assigned once and read many times)
With(e, F(_)) == CHOOSE y \in {F(x) : x \in {e}} : TRUE

Min(S) == CHOOSE x \in S : \A y \in S : x <= y
Max(S) == CHOOSE x \in S : \A y \in S : x >= y

\* s[i..j-1] with 0-based, end-exclusive indices, as a Python slice s[i:j]
Slice(s, i, j) == SubSeq(s, i + 1, j)

\* needle occurs in hay starting at 0-based index i
OccursAt(hay, needle, i) ==
    /\ i >= 0
    /\ i + Len(needle) <= Len(hay)
    /\ \A k \in 1..Len(needle) : hay[i + k] = needle[k]

\* Python `needle in hay`
Contains(hay, needle) == \E i \in 0..(Len(hay) - Len(needle)) : OccursAt(hay, needle, i)

\* Python hay.find(needle), -1 when absent
Find(hay, needle) ==
    IF Contains(hay, needle)
    THEN Min({i \in 0..(Len(hay) - Len(needle)) : OccursAt(hay, needle, i)})
    ELSE -1

\* Python hay.rfind(needle), -1 when absent
RFind(hay, needle) ==
    IF Contains(hay, needle)
    THEN Max({i \in 0..(Len(hay) - Len(needle)) : OccursAt(hay, needle, i)})
    ELSE -1

EndsWith(s, suf) == Len(suf) <= Len(s) /\ OccursAt(s, suf, Len(s) - Len(suf))

\* Python s.replace(old, new) for a non-empty old: leftmost non-overlapping occurrences
RECURSIVE Replace(_, _, _)
Replace(s, old, new) ==
    IF ~Contains(s, old) THEN s
    ELSE With(Find(s, old), LAMBDA i :
            Slice(s, 0, i) \o new \o Replace(Slice(s, i + Len(old), Len(s)), old, new))

WhiteSpace == {" ", "u3000"}

\* Python s.strip()
RECURSIVE LStrip(_)
LStrip(s) == IF s # <<>> /\ Head(s) \in WhiteSpace THEN LStrip(Tail(s)) ELSE s
RECURSIVE RStrip(_)
RStrip(s) == IF s # <<>> /\ s[Len(s)] \in WhiteSpace THEN RStrip(Slice(s, 0, Len(s) - 1)) ELSE s
Strip(s) == RStrip(LStrip(s))

\* str.lower(): only the ASCII letters of the messages change
LowerTok(c) ==
    CASE c = "L" -> "l" [] c = "D" -> "d" [] c = "K" -> "k" [] c = "B" -> "b"
      [] c = "S" -> "s" [] OTHER -> c
Lower(s) == [i \in 1..Len(s) |-> LowerTok(s[i])]

AsciiDigits == {"0", "1", "2", "3", "4", "5", "6", "7", "8", "9"}
UnicodeDigits == AsciiDigits \cup {"uFF10", "uFF11", "uFF12", "uFF13", "uFF14",
                                   "uFF15", "uFF16", "uFF17", "uFF18", "uFF19"}
\* str.isdigit(): non-empty and every character a digit
IsDigitStr(s) == s # <<>> /\ \A i \in 1..Len(s) : s[i] \in UnicodeDigits

DigitVal(c) ==
    CASE c = "0" -> 0 [] c = "1" -> 1 [] c = "2" -> 2 [] c = "3" -> 3 [] c = "4" -> 4
      [] c = "5" -> 5 [] c = "6" -> 6 [] c = "7" -> 7 [] c = "8" -> 8 [] c = "9" -> 9

\* int(s) of a digit string
RECURSIVE ParseInt(_)
ParseInt(s) == IF s = <<>> THEN 0 ELSE ParseInt(Slice(s, 0, Len(s) - 1)) * 10 + DigitVal(s[Len(s)])

AnyIn(hay, needles) == \E n \in needles : Contains(hay, n)

----------------------------------------------------------------------------
(* _is_count_only_query *)

count_keywords == {
    <<"u4F55", "u4EF6">>, <<"u4EF6", "u6570">>, <<"u7DCF", "u6570">>, <<"u5408", "u8A08">>, <<"u5168", "u4F53">>, <<"u5168", "u90E8", "u3067">>, <<"u30C8", "u30FC", "u30BF", "u30EB">>,
    <<"u767B", "u9332", "u3055", "u308C", "u3066">>, <<"u30C7", "u30FC", "u30BF", "u30D9", "u30FC", "u30B9">>, <<"d", "b">>, <<"u5168", "u7269", "u4EF6">>, <<"u7269", "u4EF6", "u6570">> }

complex_keywords == {
    <<"u4FA1", "u683C">>, <<"u5186">>, <<"u4E07", "u5186">>, <<"u5104", "u5186">>, <<"u4E88", "u7B97">>, <<"u76F8", "u5834">>, <<"u5B89", "u3044">>, <<"u9AD8", "u3044">>,
    <<"u90FD", "u9053", "u5E9C", "u770C">>, <<"u5E02">>, <<"u533A">>, <<"u30A8", "u30EA", "u30A2">>, <<"u5730", "u57DF">>, <<"u99C5">>, <<"u6CBF", "u7DDA">>,
    <<"u9593", "u53D6", "u308A">>, <<"l", "d", "k">>, <<"d", "k">>, <<"u7BC9", "u5E74">>, <<"u65B0", "u7BC9">>, <<"u4E2D", "u53E4">> }

\* any(count_patterns), on the lower-cased message
CountIntent(message_lower) ==
    \/ AnyIn(message_lower, count_keywords)
    \/ /\ Contains(message_lower, <<"u7269", "u4EF6">>)
       /\ (Contains(message_lower, <<"u4F55">>) \/ Contains(message_lower, <<"u3044", "u304F", "u3064">>))
    \/ /\ Contains(message_lower, <<"u30C7", "u30FC", "u30BF", "u30D9", "u30FC", "u30B9">>)
       /\ (Contains(message_lower, <<"u4F55">>) \/ Contains(message_lower, <<"u3044", "u304F", "u3064">>))

has_complex_conditions(message) == AnyIn(Lower(message), complex_keywords)

\* a variant without the complex-condition test: any count intent is count-only
is_count_only_query_any_intent(message) == CountIntent(Lower(message))

is_count_only_query(message) == CountIntent(Lower(message)) /\ ~has_complex_conditions(message)

----------------------------------------------------------------------------
(* Regular expressions (Python re).  A pattern is a tuple of items, matched *)
(* left to right with backtracking in the order of the re module:           *)
(*   Lit(alts)            an alternation of literal strings, tried in order *)
(*   Rep(neg, set, min, max, lazy)  [set]{min,max} or [^set]{min,max}; max  *)
(*                        -1 is unbounded; greedy unless lazy               *)
(*   Look(alts)           (?=alt|...|$|\s) when alts is the range lookahead *)
(*   Star(items)          (?:items)*  greedy                                *)
(* A position is a 0-based index; the character at position p is s[p + 1].  *)

NoneT == <<"None">>             \* Python None where a str is expected

Lit(alts) == [k |-> "lit", alts |-> alts]
Rep(neg, set, min, max, lazy) ==
    [k |-> "cls", neg |-> neg, set |-> set, min |-> min, max |-> max, lazy |-> lazy]
One(set) == Rep(FALSE, set, 1, 1, FALSE)             \* [set]
Plus(set) == Rep(FALSE, set, 1, -1, FALSE)           \* [set]+
NPlus(set) == Rep(TRUE, set, 1, -1, FALSE)           \* [^set]+
NPlusLazy(set) == Rep(TRUE, set, 1, -1, TRUE)        \* [^set]+?
NStar(set) == Rep(TRUE, set, 0, -1, FALSE)           \* [^set]*
NAtLeast(set, min) == Rep(TRUE, set, min, -1, FALSE) \* [^set]{min,}
Look(alts) == [k |-> "look", alts |-> alts]
Star(items) == [k |-> "star", items |-> items]

InClass(it, c) == IF it.neg THEN c \notin it.set ELSE c \in it.set

\* length of the longest run of characters of the class starting at pos
ClassRun(s, pos, it) ==
    Max({n \in 0..(Len(s) - pos) :
            /\ it.max < 0 \/ n <= it.max
            /\ \A j \in 1..n : InClass(it, s[pos + j])})

\* end position of the match of items at pos that backtracking finds first; -1 when none
RECURSIVE RxMatch(_, _, _)
RxMatch(s, pos, items) ==
    IF items = <<>> THEN pos
    ELSE LET it == Head(items)
             rest == Tail(items)
         IN CASE it.k = "lit" ->
                   LET ok == {j \in 1..Len(it.alts) :
                                 /\ OccursAt(s, it.alts[j], pos)
                                 /\ RxMatch(s, pos + Len(it.alts[j]), rest) # -1}
                   IN IF ok = {} THEN -1
                      ELSE RxMatch(s, pos + Len(it.alts[Min(ok)]), rest)
              [] it.k = "cls" ->
                   LET ok == {n \in it.min..ClassRun(s, pos, it) : RxMatch(s, pos + n, rest) # -1}
                   IN IF ok = {} THEN -1
                      ELSE RxMatch(s, pos + (IF it.lazy THEN Min(ok) ELSE Max(ok)), rest)
              [] it.k = "look" ->
                   IF \/ pos = Len(s)
                      \/ pos < Len(s) /\ s[pos + 1] \in {" ", "u3000"}
                      \/ \E a \in it.alts : OccursAt(s, a, pos)
                   THEN RxMatch(s, pos, rest) ELSE -1
              [] it.k = "star" ->
                   LET r == RxMatch(s, pos, it.items \o <<it>> \o rest)
                   IN IF r # -1 THEN r ELSE RxMatch(s, pos, rest)

\* re.search(pattern, s): <<start, end>> of the leftmost match, <<-1, -1>> when none
RxSearch(s, items) ==
    With([i \in 0..Len(s) |-> RxMatch(s, i, items)], LAMBDA ends :
        With({i \in DOMAIN ends : ends[i] # -1}, LAMBDA starts :
            IF starts = {} THEN <<-1, -1>> ELSE <<Min(starts), ends[Min(starts)]>>))

\* match.group(1) of a pattern whose group spans the whole match; NoneT when no match
RxGroup(s, items) ==
    With(RxSearch(s, items), LAMBDA m : IF m[1] < 0 THEN NoneT ELSE Slice(s, m[1], m[2]))

RxSpace == {" ", "u3000"}       \* \s
RxDigits == UnicodeDigits       \* \d
AddrNumberChars == RxDigits \cup {"-", "u2212", "uFF0D"}    \* [0-9 fullwidth digits, hyphen, minus, fullwidth hyphen]
KaRa == {"u304B", "u3089"}      \* the kana ka and ra of kara ("from")
No == "u306E"                   \* the particle no
Kara == <<"u304B", "u3089">>
Made == <<"u307E", "u3067">>
Shi == "u5E02"                  \* city suffix shi
Ku == "u533A"                   \* ward suffix ku
Machi == "u753A"                \* town suffix machi/chou
Mura == "u6751"                 \* village suffix mura
Ken == "u770C"                  \* prefecture suffixes ken, to, fu, dou
To == "u90FD"
Fu == "u5E9C"
Dou == "u9053"
TownEnd == {Machi, "u4E01", "u76EE"}                  \* [machi chou me]

\* (?=kara|made|$|\s)
RangeLookahead == Look({Kara, Made})
\* (?:shi|ku|machi|mura)
MunicipalitySuffix == Lit(<< <<Shi>>, <<Ku>>, <<Machi>>, <<Mura>> >>)

\* the 46 prefecture stems of the address patterns, in source order
PrefStems == <<
    <<"u9752", "u68EE">>, <<"u5CA9", "u624B">>, <<"u5BAE", "u57CE">>, <<"u79CB", "u7530">>, <<"u5C71", "u5F62">>, <<"u798F", "u5CF6">>, <<"u8328", "u57CE">>, <<"u6803", "u6728">>, <<"u7FA4", "u99AC">>, <<"u57FC", "u7389">>, <<"u5343", "u8449">>, <<"u6771", "u4EAC">>,
    <<"u795E", "u5948", "u5DDD">>, <<"u65B0", "u6F5F">>, <<"u5BCC", "u5C71">>, <<"u77F3", "u5DDD">>, <<"u798F", "u4E95">>, <<"u5C71", "u68A8">>, <<"u9577", "u91CE">>, <<"u5C90", "u961C">>, <<"u9759", "u5CA1">>, <<"u611B", "u77E5">>, <<"u4E09", "u91CD">>, <<"u6ECB", "u8CC0">>,
    <<"u4EAC", "u90FD">>, <<"u5927", "u962A">>, <<"u5175", "u5EAB">>, <<"u5948", "u826F">>, <<"u548C", "u6B4C", "u5C71">>, <<"u9CE5", "u53D6">>, <<"u5CF6", "u6839">>, <<"u5CA1", "u5C71">>, <<"u5E83", "u5CF6">>, <<"u5C71", "u53E3">>, <<"u5FB3", "u5CF6">>, <<"u9999", "u5DDD">>,
    <<"u611B", "u5A9B">>, <<"u9AD8", "u77E5">>, <<"u798F", "u5CA1">>, <<"u4F50", "u8CC0">>, <<"u9577", "u5D0E">>, <<"u718A", "u672C">>, <<"u5927", "u5206">>, <<"u5BAE", "u5D0E">>, <<"u9E7F", "u5150", "u5CF6">>, <<"u6C96", "u7E04">> >>
PrefSuffixes == <<Ken, To, Fu, Dou>>

\* (?:Hokkaido|(?:stem1|...|stem46)(?:ken|to|fu|dou))
PrefHead ==
    Lit(<<<<"u5317", "u6D77", "u9053">>>> \o
        [i \in 1..(Len(PrefStems) * 4) |->
            PrefStems[((i - 1) \div 4) + 1] \o <<PrefSuffixes[((i - 1) % 4) + 1]>>])

\* (?:Sapporo|...|Kumamoto)shi : the ordinance-designated cities, in source order
CityStems == <<
    <<"u672D", "u5E4C">>, <<"u4ED9", "u53F0">>, <<"u3055", "u3044", "u305F", "u307E">>, <<"u5343", "u8449">>, <<"u6A2A", "u6D5C">>, <<"u5DDD", "u5D0E">>, <<"u76F8", "u6A21", "u539F">>, <<"u65B0", "u6F5F">>, <<"u9759", "u5CA1">>, <<"u6D5C", "u677E">>, <<"u540D", "u53E4", "u5C4B">>,
    <<"u4EAC", "u90FD">>, <<"u5927", "u962A">>, <<"u583A">>, <<"u795E", "u6238">>, <<"u5948", "u826F">>, <<"u548C", "u6B4C", "u5C71">>, <<"u5CA1", "u5C71">>, <<"u5E83", "u5CF6">>, <<"u5317", "u4E5D", "u5DDE">>, <<"u798F", "u5CA1">>, <<"u718A", "u672C">> >>
CityHead == Lit([i \in 1..Len(CityStems) |-> CityStems[i] \o <<Shi>>])
TokyoHead == Lit(<<<<"u6771", "u4EAC", "u90FD">>>>)

----------------------------------------------------------------------------
(* _detect_address_in_message *)

MinAddressLen == 8

\* the eight patterns of complete_address_patterns, in source order
complete_address_patterns == <<
    \* pref [^\s]+? (?:shi|ku|machi|mura) [^\s kara]+? [digits hyphens]+ (?=kara|made|$|\s)
    <<PrefHead, NPlusLazy(RxSpace), MunicipalitySuffix, NPlusLazy(RxSpace \cup KaRa),
      Plus(AddrNumberChars), RangeLookahead>>,
    \* Tokyo-to [^\s]+ ku [^\s kara]+ [digits hyphens]+ (?=...)
    <<TokyoHead, NPlus(RxSpace), Lit(<< <<Ku>> >>), NPlus(RxSpace \cup KaRa),
      Plus(AddrNumberChars), RangeLookahead>>,
    \* city-shi [^\s]+ ku [^\s kara]+ [digits hyphens]+ (?=...)
    <<CityHead, NPlus(RxSpace), Lit(<< <<Ku>> >>), NPlus(RxSpace \cup KaRa),
      Plus(AddrNumberChars), RangeLookahead>>,
    \* pref [^\s]+? (?:shi|ku|machi|mura) [^\s kara]+? [machi chou me] (?=...)
    <<PrefHead, NPlusLazy(RxSpace), MunicipalitySuffix, NPlusLazy(RxSpace \cup KaRa),
      One(TownEnd), RangeLookahead>>,
    \* Tokyo-to [^\s]+ ku [^\s kara]+? [machi chou me] (?=...)
    <<TokyoHead, NPlus(RxSpace), Lit(<< <<Ku>> >>), NPlusLazy(RxSpace \cup KaRa),
      One(TownEnd), RangeLookahead>>,
    \* city-shi [^\s]+ ku [^\s kara]+? [machi chou me] (?=...)
    <<CityHead, NPlus(RxSpace), Lit(<< <<Ku>> >>), NPlusLazy(RxSpace \cup KaRa),
      One(TownEnd), RangeLookahead>>,
    \* pref [^\s]+? (?:shi|ku|machi|mura) [^\s]* [machi chou me] [^\s no]* \d+ (?:-\d+)*
    <<PrefHead, NPlusLazy(RxSpace), MunicipalitySuffix, NStar(RxSpace), One(TownEnd),
      NStar(RxSpace \cup {No}), Plus(RxDigits), Star(<<Lit(<< <<"-">> >>), Plus(RxDigits)>>)>>,
    \* city-shi [^\s]+ ku [^\s]* [machi chou me] [^\s no]* \d+ (?:-\d+)*
    <<CityHead, NPlus(RxSpace), Lit(<< <<Ku>> >>), NStar(RxSpace), One(TownEnd),
      NStar(RxSpace \cup {No}), Plus(RxDigits), Star(<<Lit(<< <<"-">> >>), Plus(RxDigits)>>)>> >>

\* the first pattern, in order, whose match has at least 8 characters; NoneT when none
detect_address_in_message(message) ==
    With([pattern \in DOMAIN complete_address_patterns |->
             RxGroup(Strip(message), complete_address_patterns[pattern])], LAMBDA address :
        With({k \in DOMAIN address : address[k] # NoneT /\ Len(address[k]) >= MinAddressLen},
             LAMBDA hits : IF hits = {} THEN NoneT ELSE address[Min(hits)]))

----------------------------------------------------------------------------
(* _normalize_location_text (agent and database service hold the same code) *)

\* a variant whose last replacement writes the small ke, which the first one reads
normalize_location_text_chained(text) ==
    Replace(Replace(Replace(text, <<"u30F6">>, <<"u30B1">>), <<"u304C">>, <<"u30AC">>), <<"u30F4">>, <<"u30F6">>)

normalize_location_text(text) ==
    Replace(Replace(Replace(text, <<"u30F6">>, <<"u30B1">>), <<"u304C">>, <<"u30AC">>), <<"u30F4">>, <<"u30D6">>)

(* DatabaseService._normalize_location_text *)
database_normalize_location_text(text) ==
    Replace(Replace(Replace(text, <<"u30F6">>, <<"u30B1">>), <<"u304C">>, <<"u30AC">>), <<"u30F4">>, <<"u30D6">>)

----------------------------------------------------------------------------
(* _identify_location_hierarchy *)

AnyChar == Rep(TRUE, {"\n"}, 1, -1, FALSE)        \* .+

\* prefecture_patterns, in source order: (Hokkaido), (.+ken), (.+to), (.+fu)
prefecture_patterns == <<
    <<Lit(<<<<"u5317", "u6D77", "u9053">>>>)>>,
    <<AnyChar, Lit(<< <<Ken>> >>)>>,
    <<AnyChar, Lit(<< <<To>> >>)>>,
    <<AnyChar, Lit(<< <<Fu>> >>)>> >>

city_pattern == <<NPlus({Ku, Machi, Mura}), Lit(<< <<Shi>> >>)>>      \* ([^ku machi mura]+shi)
ward_pattern == <<NPlus({Machi, Mura}), Lit(<< <<Ku>> >>)>>           \* ([^machi mura]+ku)
\* ([^<ideographic full stop><ideographic comma>\\s]{2,}) in a raw string: the class excludes the two punctuation marks,
\* the backslash and the letter s
town_pattern == <<NAtLeast({"u3002", "u3001", "\\", "s"}, 2)>>

invalid_suffixes == <<<<"u3067", "u7D5E", "u3063", "u3066">>, <<"u3067", "u7D5E", "u308B">>, <<"u306B", "u3064", "u3044", "u3066">>, <<"u306B", "u95A2", "u3057", "u3066">>, <<"u306E", "u60C5", "u5831">>, <<"u306E", "u30C7", "u30FC", "u30BF">>>>

\* the town block: the matched token with the first matching suffix removed, NoneT
\* when nothing acceptable is left
TownName(town_match, hit) ==
    IF hit = {} THEN town_match
    ELSE Slice(town_match, 0, Len(town_match) - Len(invalid_suffixes[Min(hit)]))
TownOf(text) ==
    With(RxGroup(text, town_pattern), LAMBDA town_match :
        IF town_match = NoneT THEN NoneT
        ELSE With(TownName(town_match, {k \in 1..Len(invalid_suffixes) :
                                           EndsWith(town_match, invalid_suffixes[k])}),
                  LAMBDA town_name :     \* is_valid is len(town_name) >= 2, tested again below
                      IF ~IsDigitStr(town_name) /\ Len(town_name) >= 2 THEN town_name ELSE NoneT))

NoHierarchy ==
    [prefecture |-> NoneT, city |-> NoneT, ward |-> NoneT, town |-> NoneT, level |-> "None"]

\* the span of the first prefecture pattern, in order, that matches; <<-1, -1>> when none
PrefectureMatch(location_text) ==
    With([pattern \in DOMAIN prefecture_patterns |->
             RxSearch(location_text, prefecture_patterns[pattern])], LAMBDA match :
        With({k \in DOMAIN match : match[k][1] >= 0}, LAMBDA hits :
            IF hits = {} THEN <<-1, -1>> ELSE match[Min(hits)]))

\* the town block on the remaining text
WithTown(hierarchy, remaining) ==
    IF remaining = <<>> THEN hierarchy
    ELSE With(TownOf(remaining), LAMBDA town :
            IF town = NoneT THEN hierarchy
            ELSE [hierarchy EXCEPT !.town = town, !.level = "town"])

\* the ward block and what follows it
WithWard(hierarchy, text, ward_match) ==
    WithTown([hierarchy EXCEPT !.ward = Slice(text, ward_match[1], ward_match[2]),
                               !.level = "ward"],
             Slice(text, ward_match[2], Len(text)))

\* after a city: the ward is looked for in the text that follows the city
AfterCity(hierarchy, after_city) ==
    IF after_city = <<>> THEN hierarchy
    ELSE With(RxSearch(after_city, ward_pattern), LAMBDA ward_match :
            IF ward_match[1] < 0 THEN hierarchy
            ELSE WithWard(hierarchy, after_city, ward_match))

\* after the prefecture: a city, else a ward (Tokyo's wards), else a town
AfterPrefecture(hierarchy, after_pref) ==
    IF after_pref = <<>> THEN hierarchy
    ELSE With(RxSearch(after_pref, city_pattern), LAMBDA city_match :
            IF city_match[1] >= 0
            THEN AfterCity([hierarchy EXCEPT
                               !.city = Slice(after_pref, city_match[1], city_match[2]),
                               !.level = "city"],
                           Slice(after_pref, city_match[2], Len(after_pref)))
            ELSE With(RxSearch(after_pref, ward_pattern), LAMBDA ward_match :
                    IF ward_match[1] >= 0
                    THEN WithWard(hierarchy, after_pref, ward_match)
                    ELSE WithTown(hierarchy, after_pref)))

identify_location_hierarchy(location_text) ==
    With(PrefectureMatch(location_text), LAMBDA match :
        IF match[1] < 0 THEN NoHierarchy
        ELSE AfterPrefecture([NoHierarchy EXCEPT
                                 !.prefecture = Slice(location_text, match[1], match[2]),
                                 !.level = "prefecture"],
                             Slice(location_text, match[2], Len(location_text))))

----------------------------------------------------------------------------
(* _detect_area_search_request *)

SpaceFree == NStar(RxSpace)      \* [^\s]*
L1(s) == Lit(<<s>>)

\* area_search_patterns, in source order
area_search_patterns == <<
    <<L1(<<"u795E", "u5948", "u5DDD", "u770C">>), SpaceFree, L1(<<Shi>>), SpaceFree, L1(<<Ku>>)>>,
    <<L1(<<"u6771", "u4EAC", "u90FD">>), SpaceFree, L1(<<Shi>>), SpaceFree, L1(<<Ku>>)>>,
    <<L1(<<"u5343", "u8449", "u770C">>), SpaceFree, L1(<<Shi>>), SpaceFree, L1(<<Ku>>)>>,
    <<L1(<<"u57FC", "u7389", "u770C">>), SpaceFree, L1(<<Shi>>), SpaceFree, L1(<<Ku>>)>>,
    <<L1(<<"u795E", "u5948", "u5DDD", "u770C">>), SpaceFree, L1(<<Shi>>)>>,
    <<L1(<<"u6771", "u4EAC", "u90FD">>), SpaceFree, L1(<<Shi>>)>>,
    <<L1(<<"u5343", "u8449", "u770C">>), SpaceFree, L1(<<Shi>>)>>,
    <<L1(<<"u57FC", "u7389", "u770C">>), SpaceFree, L1(<<Shi>>)>>,
    <<L1(<<"u6771", "u4EAC", "u90FD">>), SpaceFree, L1(<<Ku>>)>>,
    <<L1(<<"u6A2A", "u6D5C", "u5E02">>), SpaceFree, L1(<<Ku>>)>>,
    <<L1(<<"u5DDD", "u5D0E", "u5E02">>), SpaceFree, L1(<<Ku>>)>>,
    <<L1(<<"u5343", "u8449", "u5E02">>), SpaceFree, L1(<<Ku>>)>>,
    <<L1(<<"u3055", "u3044", "u305F", "u307E", "u5E02">>), SpaceFree, L1(<<Ku>>)>>,
    <<L1(<<"u6A2A", "u6D5C", "u5E02">>)>>, <<L1(<<"u5DDD", "u5D0E", "u5E02">>)>>, <<L1(<<"u5343", "u8449", "u5E02">>)>>, <<L1(<<"u3055", "u3044", "u305F", "u307E", "u5E02">>)>>,
    <<L1(<<"u6E0B", "u8C37", "u533A">>)>>, <<L1(<<"u65B0", "u5BBF", "u533A">>)>>, <<L1(<<"u4E16", "u7530", "u8C37", "u533A">>)>>, <<L1(<<"u6E2F", "u533A">>)>>, <<L1(<<"u54C1", "u5DDD", "u533A">>)>>,
    <<L1(<<"u6771", "u4EAC", "u90FD">>)>>, <<L1(<<"u795E", "u5948", "u5DDD", "u770C">>)>>, <<L1(<<"u5343", "u8449", "u770C">>)>>, <<L1(<<"u57FC", "u7389", "u770C">>)>>,
    <<SpaceFree, L1(<<Ku>>), SpaceFree, L1(<<"u691C", "u7D22">>)>>,
    <<SpaceFree, L1(<<Shi>>), SpaceFree, L1(<<"u691C", "u7D22">>)>> >>

\* the area of the k-th pattern: group(1).replace(kensaku, '').replace(de, '').strip()
AreaOfPattern(message, k) ==
    With(RxGroup(message, area_search_patterns[k]), LAMBDA g :
        IF g = NoneT THEN NoneT
        ELSE Strip(Replace(Replace(g, <<"u691C", "u7D22">>, <<>>), <<"u3067">>, <<>>)))

\* longest_match after patterns 1..k (strictly longer replaces)
Longer(longest_match, area) ==
    IF area # NoneT /\ Len(area) > Len(longest_match) THEN area ELSE longest_match
RECURSIVE LongestArea(_, _)
LongestArea(message, k) ==
    IF k = 0 THEN <<>>
    ELSE Longer(LongestArea(message, k - 1), AreaOfPattern(message, k))

detect_area_search_request(message) ==
    With(LongestArea(message, Len(area_search_patterns)), LAMBDA longest_match :
        IF longest_match # <<>> THEN longest_match ELSE NoneT)

----------------------------------------------------------------------------
(* _normalize_address_for_dedup *)

\* s.split(sep)[-1] for a one-character separator: the text after its last occurrence
AfterLast(s, sep) == Slice(s, RFind(s, <<sep>>) + 1, Len(s))
\* s.split(sep)[0]: the text before its first occurrence
BeforeFirst(s, sep) == IF Contains(s, <<sep>>) THEN Slice(s, 0, Find(s, <<sep>>)) ELSE s

\* a variant that keeps the house number: the text after the ward or city, as it is
normalize_address_for_dedup_keep_number(address) ==
    IF address = <<>> \/ address = NoneT THEN address
    ELSE Strip(IF Contains(address, <<Ku>>) THEN Strip(AfterLast(address, Ku))
               ELSE IF Contains(address, <<Shi>>) THEN Strip(AfterLast(address, Shi))
               ELSE address)

normalize_address_for_dedup(address) ==
    IF address = <<>> \/ address = NoneT THEN address
    ELSE With(IF Contains(address, <<Ku>>) THEN Strip(AfterLast(address, Ku))
              ELSE IF Contains(address, <<Shi>>) THEN Strip(AfterLast(address, Shi))
              ELSE address,
              LAMBDA normalized : Strip(BeforeFirst(normalized, "-")))

----------------------------------------------------------------------------
(* Listings.  A row of BUY_data_integrated is a record; a text column holds *)
(* a token tuple or NoneT (SQL NULL, Python None).  pos stands for          *)
(* (latitude, longitude): the place of the listing on a line, in metres, or *)
(* -1 when the coordinates are NULL or ''.  last_listed_date is <<>> when   *)
(* missing and <<d>> for a date d days before now; years likewise.          *)

Row(id, address, mi_price, floor_plan, pref, municipality_name, ward_name, town_name,
    traffic1, pos, last_listed_date, dt, years) ==
    [id |-> id, address |-> address, mi_price |-> mi_price, floor_plan |-> floor_plan,
     pref |-> pref, municipality_name |-> municipality_name, ward_name |-> ward_name,
     town_name |-> town_name, traffic1 |-> traffic1, pos |-> pos,
     last_listed_date |-> last_listed_date, dt |-> dt, years |-> years]

MissingT == <<"Missing">>       \* a key that the dict does not hold

\* the dict {} before any key is set: every column is missing
NoRow == Row(0, MissingT, MissingT, MissingT, MissingT, MissingT, MissingT, MissingT,
             MissingT, -1, <<>>, 0, <<>>)

\* a result dict: the row's columns plus the keys the agent adds.
\*   tc      '_total_count' (-1: key absent)
\*   method  '_search_method' ("none": key absent)
\*   score   '_recommendation_score' in hundredths (-1: key absent)
\*   dist    'distance_km' in metres (-1: key absent)
Dict(r) == [r |-> r, tc |-> -1, method |-> "none", score |-> -1, dist |-> -1]

\* dict.get(key, default) on a text column
Get(d, col, default) == IF d.r[col] = MissingT THEN default ELSE d.r[col]

\* SQL: col LIKE '%x%' (NULL never matches; ASCII letters compare case-insensitively)
Like(col, x) == col # NoneT /\ Contains(Lower(col), Lower(x))

\* SQL: mi_price IS NOT NULL AND mi_price != '' AND mi_price != '0'
ValidPrice(r) == r.mi_price # NoneT /\ r.mi_price # <<>> /\ r.mi_price # <<"0">>

\* SQL: CAST(mi_price AS INTEGER) of a non-NULL text: its leading digits, 0 when none
CastInt(s) ==
    ParseInt(Slice(s, 0, Max({n \in 0..Len(s) : \A j \in 1..n : s[j] \in AsciiDigits})))

\* Python int(x) raises on None, on '' and on a non-number
IntRaises(s) == s = NoneT \/ s = MissingT \/ ~(s # <<>> /\ \A j \in 1..Len(s) : s[j] \in AsciiDigits)

\* SELECT ... WHERE P: the rows of D that satisfy P, in rowid order
Select(D, P(_)) == SelectSeq(D, P)

\* SELECT DISTINCT address, mi_price, floor_plan
DistinctKeys(rows) == {<<rows[i].address, rows[i].mi_price, rows[i].floor_plan>> : i \in 1..Len(rows)}

\* stable insertion of a pair <<key, value>> into pairs sorted by non-increasing key
RECURSIVE InsertDesc(_, _)
InsertDesc(sorted, x) ==
    IF sorted = <<>> THEN <<x>>
    ELSE IF Head(sorted)[1] >= x[1] THEN <<Head(sorted)>> \o InsertDesc(Tail(sorted), x)
    ELSE <<x>> \o sorted

RECURSIVE SortPairsDesc(_)
SortPairsDesc(s) ==
    IF s = <<>> THEN <<>>
    ELSE InsertDesc(SortPairsDesc(Slice(s, 0, Len(s) - 1)), s[Len(s)])

\* list.sort(key=..., reverse=True): stable, largest key first
SortDesc(s, key(_)) ==
    LET sorted == SortPairsDesc([i \in 1..Len(s) |-> <<key(s[i]), s[i]>>])
    IN [i \in 1..Len(s) |-> sorted[i][2]]

Take(s, n) == Slice(s, 0, IF n < Len(s) THEN n ELSE Len(s))

----------------------------------------------------------------------------
(* PropertyRecommendationScorer: scores are kept in hundredths of a point *)

\* _score_by_listing_date: (score, weight) with weight 1.0
score_by_listing_date(r) ==
    IF r.last_listed_date = <<>> THEN 5000
    ELSE LET days_since_listing == r.last_listed_date[1]
             score == IF days_since_listing <= 0 THEN 10000
                      ELSE IF days_since_listing <= 7 THEN 10000 - days_since_listing * 286
                      ELSE IF days_since_listing <= 30 THEN 8000 - (days_since_listing - 7) * 130
                      ELSE IF days_since_listing <= 90 THEN 5000 - (days_since_listing - 30) * 50
                      ELSE IF days_since_listing <= 180 THEN 2000 - (days_since_listing - 90) * 11
                      ELSE 1000
         IN IF score < 0 THEN 0 ELSE score

\* what a scoring method does on a listing: it returns (score, weight) or it raises
Returned(score, weight) == [raises |-> FALSE, score |-> score, weight |-> weight]
Raised == [raises |-> TRUE, score |-> 0, weight |-> 0]

\* the loop over scoring_methods: a method that raises is passed over (continue)
RECURSIVE total_score(_)
total_score(outcomes) ==
    IF outcomes = <<>> THEN 0
    ELSE (IF Head(outcomes).raises THEN 0 ELSE Head(outcomes).score * Head(outcomes).weight)
         + total_score(Tail(outcomes))

RECURSIVE max_possible_score(_)
max_possible_score(outcomes) ==
    IF outcomes = <<>> THEN 0
    ELSE (IF Head(outcomes).raises THEN 0 ELSE 10000 * Head(outcomes).weight)
         + max_possible_score(Tail(outcomes))

\* a variant in which one failing method makes the whole score 0
normalized_score_zero_on_failure(outcomes) ==
    IF max_possible_score(outcomes) = 0 \/ \E i \in DOMAIN outcomes : outcomes[i].raises THEN 0
    ELSE Min({10000, Max({0, (total_score(outcomes) * 10000) \div max_possible_score(outcomes)})})

\* the value returned, given what each scoring method did: 0.0 when nothing was
\* weighed, else the weighted score on the scale of 100, clipped to [0, 100]
normalized_score(outcomes) ==
    IF max_possible_score(outcomes) = 0 THEN 0
    ELSE Min({10000, Max({0, (total_score(outcomes) * 10000) \div max_possible_score(outcomes)})})

\* calculate_recommendation_score with the scoring_methods of __init__: the one
\* method _score_by_listing_date, of weight 1.0
calculate_recommendation_score(r) ==
    normalized_score(<<Returned(score_by_listing_date(r), 1)>>)

----------------------------------------------------------------------------
(* _remove_duplicates *)

\* floor_plan with the storage-room annotations removed
NormalizedFloorPlan(d) ==
    Strip(Replace(Replace(Get(d, "floor_plan", <<>>), <<"+", "S", "uFF08", "u7D0D", "u6238", "uFF09">>, <<>>), <<"uFF08", "u7D0D", "u6238", "uFF09">>, <<>>))

\* duplicate_key = (normalized address, price string, normalized floor plan)
duplicate_key(d) ==
    <<normalize_address_for_dedup(Get(d, "address", <<>>)),
      Strip(IF Get(d, "mi_price", <<>>) = NoneT THEN <<"N", "o", "n", "e">> ELSE Get(d, "mi_price", <<>>)),
      NormalizedFloorPlan(d)>>

\* result.get("floor_plan", "").replace(...) raises AttributeError on a NULL floor plan
RemoveDuplicatesRaises(results) == \E i \in 1..Len(results) : results[i].r.floor_plan = NoneT

\* the loop: a dict whose key was not seen before is kept and given its score
RECURSIVE UniqueResults(_, _)
UniqueResults(results, seen) ==
    IF results = <<>> THEN <<>>
    ELSE With(duplicate_key(Head(results)), LAMBDA key :
            IF key \notin seen
            THEN <<[Head(results) EXCEPT !.score = calculate_recommendation_score(Head(results).r)]>>
                 \o UniqueResults(Tail(results), seen \cup {key})
            ELSE UniqueResults(Tail(results), seen))

ScoreOf(d) == IF d.score < 0 THEN 0 ELSE d.score

\* the list returned (the dicts are shared with the input list, so a '_total_count'
\* set on the input's first dict before the call stays on that dict)
remove_duplicates(results) ==
    IF results = <<>> THEN results
    ELSE With(SortDesc(UniqueResults(results, {}), ScoreOf), LAMBDA unique_results :
            [unique_results EXCEPT ![1] =
                [@ EXCEPT !.tc = Len(unique_results),
                          !.method = IF results[1].tc < 0 THEN "duplicate_removed"
                                     ELSE IF results[1].method # "none" THEN results[1].method
                                     ELSE @]])

----------------------------------------------------------------------------
(* The listings table.  The database is a sequence of rows in rowid order. *)

MaxRows == 3        \* the database holds at most this many listings

\* the listings a database is drawn from: a pair that differs in the house number only,
\* a listing without a valid price, one without coordinates, one whose ward is written
\* with the small ke, a second copy of the first listing, one without a floor plan
Pool ==
    << Row(1, <<"u5343", "u8449", "u770C", "u8239", "u6A4B", "u5E02", "u672C", "u753A", "1", "-", "2">>, <<"3", "0", "0", "0", "0", "0", "0", "0">>, <<"3", "L", "D", "K">>, <<"u5343", "u8449", "u770C">>, <<"u8239", "u6A4B", "u5E02">>, NoneT, <<"u672C", "u753A">>,
           <<"[", "\"", "u300C", "u8239", "u6A4B", "u300D", "u5F92", "u6B69", "5", "u5206", "\"", "]">>, 100, <<3>>, 7, <<10>>),
       Row(2, <<"u5343", "u8449", "u770C", "u8239", "u6A4B", "u5E02", "u672C", "u753A", "1", "-", "9">>, <<"3", "0", "0", "0", "0", "0", "0", "0">>, <<"3", "L", "D", "K">>, <<"u5343", "u8449", "u770C">>, <<"u8239", "u6A4B", "u5E02">>, NoneT, <<"u672C", "u753A">>,
           <<"[", "\"", "u300C", "u8239", "u6A4B", "u300D", "u5F92", "u6B69", "7", "u5206", "\"", "]">>, 200, <<1>>, 6, <<10>>),
       Row(3, <<"u5343", "u8449", "u770C", "u4E00", "u5BAE", "u753A", "u6771", "1", "-", "1">>, <<"0">>, <<"2", "L", "D", "K">>, <<"u5343", "u8449", "u770C">>, <<"u4E00", "u5BAE", "u753A">>, NoneT, <<"u6771">>,
           NoneT, 300, <<>>, 5, <<>>),
       Row(4, <<"u6771", "u4EAC", "u90FD", "u6E2F", "u533A", "u829D", "2">>, <<"8", "0", "0", "0", "0", "0", "0", "0">>, <<"1", "L", "D", "K">>, <<"u6771", "u4EAC", "u90FD">>, <<"u6E2F", "u533A">>, NoneT, <<"u829D">>,
           NoneT, -1, <<40>>, 4, <<20>>),
       Row(5, <<"u795E", "u5948", "u5DDD", "u770C", "u6A2A", "u6D5C", "u5E02", "u4FDD", "u571F", "u30F6", "u8C37", "u533A", "u661F", "u5DDD", "1">>, <<"5", "0", "0", "0", "0", "0", "0", "0">>, <<"2", "L", "D", "K">>, <<"u795E", "u5948", "u5DDD", "u770C">>, <<"u6A2A", "u6D5C", "u5E02">>, <<"u4FDD", "u571F", "u30F6", "u8C37", "u533A">>, <<"u661F", "u5DDD">>,
           NoneT, 5000, <<10>>, 3, <<5>>),
       Row(6, <<"u5343", "u8449", "u770C", "u8239", "u6A4B", "u5E02", "u672C", "u753A", "1", "-", "2">>, <<"3", "0", "0", "0", "0", "0", "0", "0">>, <<"3", "L", "D", "K">>, <<"u5343", "u8449", "u770C">>, <<"u8239", "u6A4B", "u5E02">>, NoneT, <<"u672C", "u753A">>,
           <<"[", "\"", "u300C", "u8239", "u6A4B", "u300D", "u5F92", "u6B69", "5", "u5206", "\"", "]">>, 100, <<0>>, 2, <<10>>),
       Row(7, <<"u5343", "u8449", "u770C", "u8239", "u6A4B", "u5E02", "u6E4A", "u753A", "3">>, <<"2", "0", "0", "0", "0", "0", "0", "0">>, NoneT, <<"u5343", "u8449", "u770C">>, <<"u8239", "u6A4B", "u5E02">>, NoneT, <<"u6E4A", "u753A">>,
           NoneT, 150, <<2>>, 1, <<30>>) >>

Databases ==
    {SelectSeq(Pool, LAMBDA r : r.id \in S) :
        S \in {T \in SUBSET {Pool[i].id : i \in 1..Len(Pool)} : Cardinality(T) <= MaxRows}}

Dicts(rows) == [i \in 1..Len(rows) |-> Dict(rows[i])]

\* result_list[0]['_total_count'] = total_count (and '_search_method' when given)
SetFirst(results, total_count, method) ==
    [results EXCEPT ![1] = [@ EXCEPT !.tc = total_count,
                                     !.method = IF method = "none" THEN @ ELSE method]]

\* [{'_total_count': total_count}]: a list of one dict that is not a listing
Placeholder(total_count) == << [Dict(NoRow) EXCEPT !.tc = total_count] >>

\* WHERE address LIKE ? AND mi_price IS NOT NULL AND mi_price != '' AND mi_price != '0'
AddressRows(pattern) == SelectSeq(db, LAMBDA r : Like(r.address, pattern) /\ ValidPrice(r))

----------------------------------------------------------------------------
(* DatabaseService.get_filtered_count(area=area): the count shown in the header *)
get_filtered_count(area) ==
    LET normalized_area == database_normalize_location_text(area)
        rows == SelectSeq(db, LAMBDA r : (area # <<>> => Like(r.address, normalized_area))
                                         /\ ValidPrice(r))
    IN IF db_error THEN 0                                          \* except: return 0
       ELSE Cardinality(DistinctKeys(rows))

(* _search_by_area *)
DtOf(r) == r.dt

\* what the method returns from the COUNT of the distinct keys and the page of rows
AreaResults(total_count, properties) ==
    IF properties = <<>> THEN Placeholder(total_count)
    ELSE IF RemoveDuplicatesRaises(properties) THEN <<>>           \* except: return []
    ELSE SetFirst(remove_duplicates(properties), total_count, "none")

\* a variant whose COUNT normalizes the area text while the SELECT of the rows does not
area_count_normalized(area) ==
    Cardinality(DistinctKeys(AddressRows(normalize_location_text(area))))

\* count_query: the COUNT of the distinct (address, mi_price, floor_plan)
area_count(area) == Cardinality(DistinctKeys(AddressRows(area)))

search_by_area(area, limit) ==
    IF db_error THEN <<>>                                          \* except: return []
    ELSE AreaResults(area_count(area), Dicts(Take(SortDesc(AddressRows(area), DtOf), limit)))

\* CountConsistencyTester.get_agent_count
get_agent_count(area) ==
    With(search_by_area(area, 10), LAMBDA search_results :
        IF search_results # <<>> /\ search_results[1].tc >= 0 THEN search_results[1].tc ELSE 0)

----------------------------------------------------------------------------
(* The direct searches.  Each runs a SELECT COUNT and then a SELECT of the rows  *)
(* with the same WHERE clause; a search gives its list and, for the record, what *)
(* the COUNT gave (-1 when no query ran).                                        *)
Found(results, matched) == [results |-> results, matched |-> matched]

(* _try_exact_address_search *)
try_exact_address_search(query) ==
    IF db_error THEN Found(<<>>, -1)                               \* except: return []
    ELSE With(AddressRows(query), LAMBDA rows :
        Found(IF Len(rows) > 0 /\ ~RemoveDuplicatesRaises(Dicts(rows))
              THEN remove_duplicates(SetFirst(Dicts(rows), Len(rows), "exact_address"))
              ELSE <<>>,
              Len(rows)))

(* _legacy_location_search: the first keyword of the table that the message holds *)
(* and whose search does not raise                                               *)
search_patterns == << <<"u6771", "u4EAC">>, <<"u8239", "u6A4B", "u6CD5", "u5178">>, <<"u8239", "u6A4B">>, <<"u5343", "u8449">> >>

\* the result list of one keyword before the duplicates are removed
LegacyResults(rows) ==
    IF rows # <<>> THEN SetFirst(Dicts(rows), Len(rows), "none") ELSE Placeholder(Len(rows))

legacy_location_search(message) ==
    IF db_error THEN Found(<<>>, -1)            \* every keyword's search raises: continue
    ELSE With([pattern \in DOMAIN search_patterns |-> AddressRows(search_patterns[pattern])],
         LAMBDA rows :
            With({k \in DOMAIN rows :
                     Contains(Lower(message), search_patterns[k])
                     /\ ~RemoveDuplicatesRaises(LegacyResults(rows[k]))},
                 LAMBDA usable :
                    IF usable = {} THEN Found(<<>>, -1)
                    ELSE Found(remove_duplicates(LegacyResults(rows[Min(usable)])),
                               Len(rows[Min(usable)]))))

(* _build_hierarchical_query: the WHERE clause as a predicate on a row *)
Tokyo == <<"u6771", "u4EAC", "u90FD">>

\* one condition: col LIKE '%normalized part%'
Condition(col, part) == Like(col, normalize_location_text(part))

PrefCondition(hierarchy, r) ==
    hierarchy.prefecture # NoneT => Condition(r.pref, hierarchy.prefecture)
CityCondition(hierarchy, r) ==
    hierarchy.city # NoneT => Condition(r.municipality_name, hierarchy.city)
\* Tokyo's special wards are held in municipality_name
WardCondition(hierarchy, r) ==
    Condition(IF hierarchy.prefecture = Tokyo THEN r.municipality_name ELSE r.ward_name,
              hierarchy.ward)

\* identify_location_hierarchy sets a level together with its component, so the branch
\* of the level is the one taken
build_hierarchical_query(hierarchy, r) ==
    CASE hierarchy.level = "prefecture" -> Condition(r.pref, hierarchy.prefecture)
      [] hierarchy.level = "city" ->
            PrefCondition(hierarchy, r) /\ Condition(r.municipality_name, hierarchy.city)
      [] hierarchy.level = "ward" ->
            PrefCondition(hierarchy, r) /\ CityCondition(hierarchy, r) /\ WardCondition(hierarchy, r)
      [] hierarchy.level = "town" ->
            /\ PrefCondition(hierarchy, r) /\ CityCondition(hierarchy, r)
            /\ hierarchy.ward # NoneT => WardCondition(hierarchy, r)
            /\ Condition(r.town_name, hierarchy.town)

\* f"{...}": a component that is None is written as the text None
Fmt(x) == IF x = NoneT THEN <<"N", "o", "n", "e">> ELSE x

WithPath(found, path) == [results |-> found.results, matched |-> found.matched, path |-> path]

\* the end of the try block: the list without duplicates; an exception in the block
\* is caught and the legacy keyword search answers
OrLegacy(message, found, path) ==
    IF RemoveDuplicatesRaises(found.results)
    THEN WithPath(legacy_location_search(message), "legacy")
    ELSE WithPath(Found(remove_duplicates(found.results), found.matched), path)

\* the address LIKE search on the joined components, made when the hierarchy matches no row
address_fallback(hierarchy) ==
    With(AddressRows(Fmt(hierarchy.prefecture) \o Fmt(hierarchy.city)
                     \o Fmt(hierarchy.ward) \o Fmt(hierarchy.town)),
         LAMBDA fallback_rows :
            Found(IF fallback_rows = <<>> THEN <<>>
                  ELSE SetFirst(Dicts(fallback_rows), Len(fallback_rows), "address_fallback"),
                  Len(fallback_rows)))

\* the hierarchical search, made when the hierarchy has a level
hierarchical_search(message, hierarchy) ==
    IF db_error THEN WithPath(legacy_location_search(message), "legacy")   \* except
    ELSE With(SelectSeq(db, LAMBDA r : build_hierarchical_query(hierarchy, r) /\ ValidPrice(r)),
         LAMBDA rows :
            OrLegacy(message,
                     IF Len(rows) = 0 THEN address_fallback(hierarchy)
                     ELSE Found(SetFirst(Dicts(rows), Len(rows), "hierarchical"), Len(rows)),
                     IF Len(rows) = 0 THEN "address_fallback" ELSE "hierarchical"))

(* _check_direct_location_query: the result list and the search that produced it *)
check_direct_location_query(message, hierarchy) ==
    With(try_exact_address_search(Strip(message)), LAMBDA exact_match_results :
        IF exact_match_results.results # <<>> THEN WithPath(exact_match_results, "exact_address")
        ELSE IF hierarchy.level = "None" THEN WithPath(legacy_location_search(message), "legacy")
        ELSE hierarchical_search(message, hierarchy))

----------------------------------------------------------------------------
(* SearchIntent: the dict that _analyze_user_query returns.  A price bound is *)
(* <<>> when the key is missing or null and <<n>> otherwise; shape is "dict"  *)
(* for a JSON object and "list" for any other JSON value.                     *)

EmptyAnalysis ==
    [shape |-> "dict", query_type |-> "complex_search", min_price |-> <<>>, max_price |-> <<>>,
     prefectures |-> <<>>, cities |-> <<>>, areas |-> <<>>, stations |-> <<>>, floor_plan |-> <<>>]

\* the four price patterns: (\d+) followed by the unit and the direction
price_patterns ==
    << [suffix |-> <<"u4E07", "u5186", "u4EE5", "u4E0B">>, man |-> TRUE, key |-> "max_price"],
       [suffix |-> <<"u4E07", "u5186", "u4EE5", "u4E0A">>, man |-> TRUE, key |-> "min_price"],
       [suffix |-> <<"u5186", "u4EE5", "u4E0B">>, man |-> FALSE, key |-> "max_price"],
       [suffix |-> <<"u5186", "u4EE5", "u4E0A">>, man |-> FALSE, key |-> "min_price"] >>

\* re.search of price_patterns[k]: <<>> when it does not match, <<price>> when it does
PriceOf(message_lower, p) ==
    With(RxSearch(message_lower, <<Plus(RxDigits), L1(p.suffix)>>), LAMBDA match :
        IF match[1] < 0 THEN <<>>
        ELSE <<ParseInt(Slice(message_lower, match[1], match[2] - Len(p.suffix)))
               * (IF p.man THEN 10000 ELSE 1)>>)

\* the last pattern that matches sets the key
LastPrice(prices, key) ==
    With({k \in DOMAIN prices : price_patterns[k].key = key /\ prices[k] # <<>>}, LAMBDA hits :
        IF hits = {} THEN <<>> ELSE prices[Max(hits)])

\* the location keywords, tried in order
Located(message_lower) ==
    IF Contains(message_lower, <<"u8239", "u6A4B", "u6CD5", "u5178">>)
    THEN [EmptyAnalysis EXCEPT !.stations = <<<<"u8239", "u6A4B", "u6CD5", "u5178">>>>, !.query_type = "location_analysis"]
    ELSE IF Contains(message_lower, <<"u8239", "u6A4B">>)
    THEN [EmptyAnalysis EXCEPT !.cities = <<<<"u8239", "u6A4B">>>>, !.query_type = "location_analysis"]
    ELSE IF Contains(message_lower, <<"u5343", "u8449">>)
    THEN [EmptyAnalysis EXCEPT !.prefectures = <<<<"u5343", "u8449">>>>, !.query_type = "location_analysis"]
    ELSE EmptyAnalysis

(* _fallback_query_analysis *)
fallback_query_analysis(message) ==
    With([k \in DOMAIN price_patterns |-> PriceOf(Lower(message), price_patterns[k])],
         LAMBDA prices :
            [Located(Lower(message)) EXCEPT
                !.min_price = LastPrice(prices, "min_price"),
                !.max_price = LastPrice(prices, "max_price"),
                !.query_type = IF \E k \in DOMAIN prices : prices[k] # <<>>
                               THEN "complex_search" ELSE @])

(* _analyze_user_query: ai_response is what get_completion returned *)
analyze_user_query(message, ai_response) ==
    IF ai_response.kind = "json" THEN ai_response.value     \* json.loads result, as it is
    ELSE fallback_query_analysis(message)                   \* None, or text that is not JSON

\* Python truth of a price bound: None and 0 are false
Truthy(x) == x # <<>> /\ x[1] # 0

\* the WHERE clause of _execute_complex_search as a predicate on a row
ComplexPredicate(query_analysis, r) ==
    LET areas == query_analysis.cities \o query_analysis.areas IN
    /\ Truthy(query_analysis.min_price) =>
           r.mi_price # NoneT /\ CastInt(r.mi_price) >= query_analysis.min_price[1]
    /\ Truthy(query_analysis.max_price) =>
           r.mi_price # NoneT /\ CastInt(r.mi_price) <= query_analysis.max_price[1]
    /\ query_analysis.prefectures # <<>> =>
           \E i \in 1..Len(query_analysis.prefectures) :
               Like(r.pref, query_analysis.prefectures[i]) \/ Like(r.address, query_analysis.prefectures[i])
    /\ areas # <<>> =>
           \E i \in 1..Len(areas) :
               Like(r.address, areas[i]) \/ Like(r.pref, areas[i]) \/ Like(r.traffic1, areas[i])
    /\ query_analysis.stations # <<>> =>
           \E i \in 1..Len(query_analysis.stations) : Like(r.traffic1, query_analysis.stations[i])
    /\ query_analysis.floor_plan # <<>> => Like(r.floor_plan, query_analysis.floor_plan)

(* _execute_complex_search *)
execute_complex_search(query_analysis) ==
    IF db_error \/ query_analysis.shape # "dict"
    THEN Found(<<>>, -1)          \* sqlite3 or .get on a non-dict raises: return []
    ELSE With(SelectSeq(db, LAMBDA r : ComplexPredicate(query_analysis, r)), LAMBDA rows :
            Found(IF rows # <<>> THEN SetFirst(Dicts(rows), Len(rows), "none")
                  ELSE Placeholder(Len(rows)),
                  Len(rows)))

\* a variant whose except clause returns -1 instead of 0
get_total_count_minus_one == IF db_error THEN -1 ELSE Len(db)

(* _get_total_count: the COUNT of all rows *)
get_total_count == IF db_error THEN 0 ELSE Len(db)                 \* except: return 0

(* _analyze_search_results: the total_count of the analysis *)
analyze_search_results(results) ==
    IF results = <<>> THEN 0
    ELSE IF results[1].tc >= 0 THEN results[1].tc
    ELSE Len(results)

----------------------------------------------------------------------------
(* Response text.  A text is described by who composed it ("llm": the text  *)
(* of the completion service, "fallback": the deterministic composer,       *)
(* "fixed": a literal of the handler), whether it says that nothing was     *)
(* found, the number of listings it states (-1: none stated by the code)    *)
(* and whether it carries the refinement block.                             *)

RefinementThreshold == 100

Text(composer, notfound, count, refine) ==
    [composer |-> composer, notfound |-> notfound, count |-> count, refine |-> refine]

(* _generate_fallback_response *)
generate_fallback_response(total_count) ==
    IF total_count = 0 THEN Text("fallback", TRUE, -1, FALSE)
    ELSE Text("fallback", FALSE, total_count, total_count > RefinementThreshold)

\* what get_completion may return for a response prompt: None, a text without the
\* two not-found phrases, a text with one of them
LLMTexts == {"None", "found", "notfound"}

(* _generate_ai_response *)
generate_ai_response(total_count, llm_response) ==
    IF llm_response = "None" THEN generate_fallback_response(total_count)
    ELSE IF total_count > 0 /\ llm_response = "notfound" THEN generate_fallback_response(total_count)
    ELSE Text("llm", llm_response = "notfound", -1, FALSE)

(* _generate_geo_fallback_response, called with total_count = len(search_results) *)
generate_geo_fallback_response(total_count) ==
    IF total_count = 0 THEN Text("fallback", TRUE, 0, FALSE)
    ELSE Text("fallback", FALSE, total_count, FALSE)

(* _generate_geo_search_response *)
generate_geo_search_response(search_results, llm_response) ==
    IF llm_response = "None" THEN generate_geo_fallback_response(Len(search_results))
    ELSE Text("llm", llm_response = "notfound", -1, FALSE)

(* _generate_area_search_response *)
generate_area_search_response(total_count) == Text("fallback", FALSE, total_count, FALSE)

----------------------------------------------------------------------------
(* _get_recommended_properties and _format_property_table_data *)

RangeScore(v, limits, scores, otherwise) ==
    LET hits == {i \in 1..Len(limits) : v <= limits[i]}
    IN IF hits = {} THEN otherwise ELSE scores[Min(hits)]

calculate_score(d) ==
    LET mi_price == Get(d, "mi_price", <<"0">>)
        price == ParseInt(mi_price)
        price_score == IF IntRaises(mi_price) THEN -10
                       ELSE IF 1000000 <= price /\ price <= 200000000
                       THEN RangeScore(price, <<50000000, 80000000>>, <<30, 20>>, 10)
                       ELSE 0
        years_score == IF d.r.years = <<>> THEN 5
                       ELSE RangeScore(d.r.years[1], <<5, 10, 20, 30>>, <<25, 20, 15, 10>>, 5)
        floor_plan == Get(d, "floor_plan", <<>>)
        plan_score == IF Contains(floor_plan, <<"3", "L", "D", "K">>) \/ Contains(floor_plan, <<"4", "L", "D", "K">>) THEN 15
                      ELSE IF Contains(floor_plan, <<"2", "L", "D", "K">>) \/ Contains(floor_plan, <<"1", "L", "D", "K">>) THEN 10
                      ELSE IF Contains(floor_plan, <<"L", "D", "K">>) THEN 5 ELSE 0
        traffic1 == Get(d, "traffic1", <<>>)
        station_score == IF traffic1 # NoneT /\ traffic1 # <<>> THEN 10 ELSE 0
    IN price_score + years_score + plan_score + station_score

\* the dicts that are scored: those without '_total_count'
Unmarked(search_results) == SelectSeq(search_results, LAMBDA d : d.tc < 0)

\* '3LDK' in floor_plan raises TypeError on a NULL floor plan
RecommendedRaises(search_results) ==
    \E i \in 1..Len(search_results) :
        search_results[i].tc < 0 /\ search_results[i].r.floor_plan = NoneT

get_recommended_properties(search_results, limit) ==
    With(Take(SortDesc(Unmarked(search_results), calculate_score), limit * 2),
         LAMBDA ranked_properties :
            IF ranked_properties = <<>> THEN <<>>
            ELSE Take(remove_duplicates(ranked_properties), limit))

\* one table entry per property, in order; an entry is known by its listing
format_property_table_data(properties) == [i \in 1..Len(properties) |-> properties[i].r.id]

TableLimit == 50

property_table(search_results) ==
    format_property_table_data(get_recommended_properties(search_results, TableLimit))

----------------------------------------------------------------------------
(* Geocoding and the radius search *)

\* what jageocoder.search may give for an address: no result (-1) or a point
GeoReplies == {-1, 120}

(* _geocode_address: the point, or -1 for None *)
geocode_address(reply) == IF ~jageocoder THEN -1 ELSE reply

Abs(x) == IF x < 0 THEN -x ELSE x

(* _search_properties_by_distance: rows with coordinates within the radius, *)
(* nearest first                                                            *)
search_properties_by_distance(point, radius_m, limit) ==
    IF db_error THEN <<>>                                          \* except: return []
    ELSE With(Take(SortDesc(SelectSeq(db, LAMBDA r : r.pos >= 0 /\ Abs(r.pos - point) <= radius_m),
                       LAMBDA r : 0 - Abs(r.pos - point)),
              limit),
         LAMBDA sorted :
            [i \in 1..Len(sorted) |-> [Dict(sorted[i]) EXCEPT !.dist = Abs(sorted[i].pos - point)]])

\* the LIMIT that _handle_geo_search chooses from the radius in metres
GeoLimit(search_radius) ==
    RangeScore(search_radius, <<500, 1000, 2000>>, <<100, 200, 300>>, 500)

----------------------------------------------------------------------------
(* Requests *)

MaxSessions == 1    \* session ids in use

Sessions == 1..MaxSessions

\* the messages users send
Messages ==
    { <<"u5343", "u8449", "u306E", "u7269", "u4EF6">>, <<"3", "L", "D", "K", " ", "5", "0", "0", "0", "u4E07", "u5186", "u4EE5", "u4E0B">>, <<"u7269", "u4EF6", "u306F", "u5168", "u90E8", "u3067", "u4F55", "u4EF6">>, <<"u5343", "u8449", "u770C", "u8239", "u6A4B", "u5E02", "u672C", "u753A", "1", "-", "2">>,
      <<"u5343", "u8449", "u770C", "u8239", "u6A4B", "u5E02", "u672C", "u753A", "1", "-", "2", " ", "u4F55", "u4EF6">>, <<"u5343", "u8449", "u770C", "u4E00", "u5BAE", "u753A", "u6771", "1", "-", "1", " ", "u4F55", "u4EF6">>, <<"u5343", "u8449", "u770C", "u8239", "u6A4B", "u5E02">>, <<"u5343", "u8449", "u770C", "u8239", "u6A4B", "u5E02", "u306E", "u7269", "u4EF6">>,
      <<"u795E", "u5948", "u5DDD", "u770C", "u6A2A", "u6D5C", "u5E02", "u4FDD", "u571F", "u30F6", "u8C37", "u533A", "u661F", "u5DDD", "u3002">>, <<"u304A", "u3059", "u3059", "u3081", "u7269", "u4EF6">> }

\* search_radius in metres (the default and a wide one)
Radii == {500, 5000}

\* what get_completion may return for the analysis prompt: None, text that is not JSON,
\* a JSON object of the asked shape, a JSON value that is not an object
IntentReplies ==
    { [kind |-> "None", value |-> EmptyAnalysis],
      [kind |-> "text", value |-> EmptyAnalysis],
      [kind |-> "json", value |-> [EmptyAnalysis EXCEPT !.max_price = <<50000000>>, !.floor_plan = <<"3", "L", "D", "K">>]],
      [kind |-> "json", value |-> [EmptyAnalysis EXCEPT !.shape = "list"]] }

\* what the text functions give for each message (they depend on the message only)
Facts ==
    [m \in Messages |->
        [count_only |-> is_count_only_query(m),
         address |-> detect_address_in_message(m),
         area |-> detect_area_search_request(m),
         hierarchy |-> identify_location_hierarchy(m)]]

----------------------------------------------------------------------------
(* AgentResponse and what a handler leaves behind.                          *)
(* saved tells whether _save_session_data ran; total_count is the one of    *)
(* the analysis (-1 when no analysis was made).                             *)

Response(agent_name, query_type, confidence, text, table) ==
    [agent_name |-> agent_name, query_type |-> query_type, confidence |-> confidence,
     text |-> text, property_table |-> table, error |-> FALSE]

Fixed(query_type, confidence, notfound, count) ==
    Response("property_analysis", query_type, confidence, Text("fixed", notfound, count, FALSE), <<>>)

\* the response of the except clause of analyze_query
ErrorResponse == [Fixed("none", 30, FALSE, -1) EXCEPT !.error = TRUE]

NoResponse == Fixed("none", 0, FALSE, -1)

Brief(results) == [i \in 1..Len(results) |-> [id |-> results[i].r.id, tc |-> results[i].tc]]

Outcome(branch, path, results, matched, total_count, saved, response) ==
    [branch |-> branch, path |-> path, results |-> Brief(results), matched |-> matched,
     total_count |-> total_count, saved |-> saved, response |-> response]

(* _handle_geo_search *)
handle_geo_search(branch, facts, search_radius, geo_reply, llm_response) ==
    IF facts.address = NoneT
    THEN Outcome(branch, "none", <<>>, -1, -1, FALSE, Fixed("geo_search_error", 30, FALSE, -1))
    ELSE IF geocode_address(geo_reply) < 0
    THEN Outcome(branch, "none", <<>>, -1, -1, FALSE, Fixed("geocoding_error", 30, FALSE, -1))
    ELSE With(search_properties_by_distance(geocode_address(geo_reply), search_radius,
                                            GeoLimit(search_radius)),
              LAMBDA found :
        IF found = <<>>
        THEN Outcome(branch, "geo", <<>>, 0, -1, FALSE, Fixed("geo_search_no_results", 80, TRUE, -1))
        ELSE IF RemoveDuplicatesRaises(found)
        THEN Outcome(branch, "geo", <<>>, Len(found), -1, FALSE, ErrorResponse)
        ELSE With(remove_duplicates(found), LAMBDA geo_search_results :
            Outcome(branch, "geo", geo_search_results, Len(found),
                    analyze_search_results(geo_search_results), TRUE,
                    Response("property_analysis", "geo_search", 95,
                             generate_geo_search_response(geo_search_results, llm_response),
                             property_table(geo_search_results)))))

(* _handle_area_search *)
\* for the record: what the COUNT of the area search gave (-1 when it raised)
AreaMatched(area) == IF db_error THEN -1 ELSE area_count(area)

handle_area_search(branch, facts) ==
    IF facts.area = NoneT
    THEN Outcome(branch, "none", <<>>, -1, -1, FALSE, Fixed("area_search_error", 30, FALSE, -1))
    ELSE With(search_by_area(facts.area, TableLimit), LAMBDA area_search_results :
        IF area_search_results = <<>>
        THEN Outcome(branch, "area", <<>>, AreaMatched(facts.area), -1, FALSE,
                     Fixed("area_search_no_results", 80, TRUE, -1))
        ELSE Outcome(branch, "area", area_search_results, AreaMatched(facts.area),
                     analyze_search_results(area_search_results), TRUE,
                     Response("property_analysis", "area_search", 95,
                              generate_area_search_response(
                                  analyze_search_results(area_search_results)),
                              property_table(area_search_results))))

\* the direct-location branch of analyze_query
DirectLocation(direct, llm_response) ==
    With(analyze_search_results(direct.results), LAMBDA total_count :
        Outcome("direct_location", direct.path, direct.results, direct.matched, total_count, TRUE,
                Response("property_analysis", "direct_location_search", 95,
                         generate_ai_response(total_count, llm_response),
                         IF total_count > 0 THEN property_table(direct.results) ELSE <<>>)))

\* the complex search once the SearchIntent is known
ComplexResults(query_analysis, search_results, matched, llm_response) ==
    With(analyze_search_results(search_results), LAMBDA total_count :
        IF (search_results # <<>> /\ total_count > 0 /\ RecommendedRaises(search_results))
           \/ query_analysis.shape # "dict"
        THEN Outcome("complex", "complex", search_results, matched, total_count, TRUE, ErrorResponse)
        ELSE Outcome("complex", "complex", search_results, matched, total_count, TRUE,
                     Response("property_analysis", query_analysis.query_type, 95,
                              generate_ai_response(total_count, llm_response),
                              IF search_results # <<>> /\ total_count > 0
                              THEN property_table(search_results) ELSE <<>>)))

\* the last branch of analyze_query: the SearchIntent and the complex search
ComplexSearch(message, intent_reply, llm_response) ==
    With(analyze_user_query(message, intent_reply), LAMBDA query_analysis :
        With(execute_complex_search(query_analysis), LAMBDA found :
            ComplexResults(query_analysis, found.results, found.matched, llm_response)))

\* a variant that tests the count-only condition before the mode flag
analyze_query_count_first(message, facts, active_function, search_radius, geo_reply, intent_reply, llm_response) ==
    IF facts.count_only
    THEN Outcome("count_only", "none", <<>>, -1, -1, FALSE, Fixed("count_only", 100, FALSE, get_total_count))
    ELSE IF active_function = "geo"
    THEN handle_geo_search("override_geo", facts, search_radius, geo_reply, llm_response)
    ELSE IF active_function = "area"
    THEN handle_area_search("override_area", facts)
    ELSE IF facts.address # NoneT
    THEN handle_geo_search("geo_radius", facts, search_radius, geo_reply, llm_response)
    ELSE With(check_direct_location_query(message, facts.hierarchy),
              LAMBDA direct_location_result :
        IF direct_location_result.results # <<>>
        THEN DirectLocation(direct_location_result, llm_response)
        ELSE ComplexSearch(message, intent_reply, llm_response))

(* analyze_query; facts holds what the text functions give for message *)
analyze_query(message, facts, active_function, search_radius, geo_reply, intent_reply, llm_response) ==
    IF active_function = "geo"
    THEN handle_geo_search("override_geo", facts, search_radius, geo_reply, llm_response)
    ELSE IF active_function = "area"
    THEN handle_area_search("override_area", facts)
    ELSE IF facts.count_only
    THEN Outcome("count_only", "none", <<>>, -1, -1, FALSE, Fixed("count_only", 100, FALSE, get_total_count))
    ELSE IF facts.address # NoneT
    THEN handle_geo_search("geo_radius", facts, search_radius, geo_reply, llm_response)
    ELSE With(check_direct_location_query(message, facts.hierarchy),
              LAMBDA direct_location_result :
        IF direct_location_result.results # <<>>
        THEN DirectLocation(direct_location_result, llm_response)
        ELSE ComplexSearch(message, intent_reply, llm_response))

----------------------------------------------------------------------------
(* _save_session_data: a session keeps the query and the analysis total.   *)
(* Session ids are ordered as their strings are.                           *)

SessionLimit == 5

NoSession == [last_query |-> <<>>, total_count |-> -1]

\* the ids that are keys of the dict
Keys(sessions) == {s \in DOMAIN sessions : sessions[s] # NoSession}

\* dict.update: the keys of data are written, the other keys of the dict stay
Update(old, data) ==
    [k \in DOMAIN old \cup DOMAIN data |-> IF k \in DOMAIN data THEN data[k] ELSE old[k]]

\* session_data[session_id].update(data), on {} when the id is new
Updated(session_id, data) ==
    [session_data EXCEPT ![session_id] = IF @ = NoSession THEN data ELSE Update(@, data)]

\* a variant that never removes a session
save_session_data_keep_all(session_id, data) == Updated(session_id, data)

save_session_data(session_id, data) ==
    IF Cardinality(Keys(Updated(session_id, data))) > SessionLimit
    THEN [Updated(session_id, data) EXCEPT ![Min(Keys(Updated(session_id, data)))] = NoSession]
    ELSE Updated(session_id, data)

(* _get_session_data: the dict of the session, {} (here NoSession) when there is none *)
get_session_data(session_id) == session_data[session_id]

----------------------------------------------------------------------------
(* AIAgentService.route_message *)

analysis_keywords ==
    { <<"u76F8", "u5834">>, <<"u5E73", "u5747">>, <<"u6BD4", "u8F03">>, <<"u5206", "u6790">>, <<"u7D71", "u8A08">>, <<"u50BE", "u5411">>, <<"u30C8", "u30EC", "u30F3", "u30C9">>,
      <<"u4FA1", "u683C", "u5E2F">>, <<"u4E88", "u7B97">>, <<"u5B89", "u3044">>, <<"u9AD8", "u3044">>, <<"u5730", "u57DF">>, <<"u30A8", "u30EA", "u30A2">>, <<"u90FD", "u9053", "u5E9C", "u770C">>,
      <<"u5E02">>, <<"u533A">>, <<"u5186", "u4EE5", "u4E0B">>, <<"u5186", "u4EE5", "u4E0A">>, <<"u4E07", "u5186">>, <<"u5104", "u5186">>, <<"u3069", "u306E", "u304F", "u3089", "u3044">>,
      <<"u3044", "u304F", "u3089">>, <<"u7BC4", "u56F2">>, <<"u6761", "u4EF6">>, <<"u7D5E", "u308A", "u8FBC", "u307F">>, <<"u8A73", "u7D30">>, <<"u8907", "u6570">>,
      <<"u4EF6", "u6570">>, <<"u767B", "u9332">>, <<"u30C7", "u30FC", "u30BF", "u30D9", "u30FC", "u30B9">>, <<"u4F55", "u4EF6">>, <<"u7DCF", "u6570">>, <<"u5408", "u8A08">>, <<"u5168", "u4F53">>,
      <<"u5317", "u6D77", "u9053">>, <<"u9752", "u68EE">>, <<"u5CA9", "u624B">>, <<"u5BAE", "u57CE">>, <<"u79CB", "u7530">>, <<"u5C71", "u5F62">>, <<"u798F", "u5CF6">>,
      <<"u8328", "u57CE">>, <<"u6803", "u6728">>, <<"u7FA4", "u99AC">>, <<"u57FC", "u7389">>, <<"u5343", "u8449">>, <<"u6771", "u4EAC">>, <<"u795E", "u5948", "u5DDD">>,
      <<"u65B0", "u6F5F">>, <<"u5BCC", "u5C71">>, <<"u77F3", "u5DDD">>, <<"u798F", "u4E95">>, <<"u5C71", "u68A8">>, <<"u9577", "u91CE">>, <<"u5C90", "u961C">>,
      <<"u9759", "u5CA1">>, <<"u611B", "u77E5">>, <<"u4E09", "u91CD">>, <<"u6ECB", "u8CC0">>, <<"u4EAC", "u90FD">>, <<"u5927", "u962A">>, <<"u5175", "u5EAB">>,
      <<"u5948", "u826F">>, <<"u548C", "u6B4C", "u5C71">>, <<"u9CE5", "u53D6">>, <<"u5CF6", "u6839">>, <<"u5CA1", "u5C71">>, <<"u5E83", "u5CF6">>, <<"u5C71", "u53E3">>,
      <<"u5FB3", "u5CF6">>, <<"u9999", "u5DDD">>, <<"u611B", "u5A9B">>, <<"u9AD8", "u77E5">>, <<"u798F", "u5CA1">>, <<"u4F50", "u8CC0">>, <<"u9577", "u5D0E">>,
      <<"u718A", "u672C">>, <<"u5927", "u5206">>, <<"u5BAE", "u5D0E">>, <<"u9E7F", "u5150", "u5CF6">>, <<"u6C96", "u7E04">>,
      <<"u304B", "u306A", "u304C", "u308F">>, <<"u304B", "u3093", "u304C", "u308F">>, <<"u304B", "u3093", "u3093", "u304C", "u308F">>, <<"u3068", "u3046", "u304D", "u3087", "u3046">>, <<"u304A", "u304A", "u3055", "u304B">>, <<"u3042", "u3044", "u3061">>, <<"u3075", "u304F", "u304A", "u304B">> }

\* the agent that route_message hands the message to
RoutedAgent(message) ==
    LET message_lower == Lower(message)
        Has(w) == Contains(message_lower, w)
        complex_patterns ==
            \/ Has(<<"u4FA1", "u683C">>) /\ AnyIn(message_lower, {<<"u5730", "u57DF">>, <<"u30A8", "u30EA", "u30A2">>, <<"u90FD", "u9053", "u5E9C", "u770C">>, <<"u5E02">>, <<"u533A">>})
            \/ AnyIn(message_lower, analysis_keywords)
            \/ Has(<<"u3068">>) /\ (Has(<<"u4FA1", "u683C">>) \/ Has(<<"u4F4F", "u6240">>))
            \/ Cardinality({w \in {<<"u4FA1", "u683C">>, <<"u4F4F", "u6240">>, <<"u9593", "u53D6", "u308A">>, <<"u7BC9", "u5E74", "u6570">>, <<"u99C5">>} : Has(w)}) >= 2
    IN IF complex_patterns THEN "property_analysis"
       ELSE IF AnyIn(message_lower, {<<"u7269", "u4EF6">>, <<"u4E0D", "u52D5", "u7523">>, <<"u691C", "u7D22">>, <<"u63A2", "u3059">>}) THEN "property_search"
       ELSE IF AnyIn(message_lower, {<<"u304A", "u3059", "u3059", "u3081">>, <<"u63A8", "u85A6">>, <<"u63D0", "u6848">>}) THEN "recommendation"
       ELSE "general"

\* the parameters of route_message, and the keywords main.chat calls it with
route_message_parameters == {"message", "session_id"}
chat_call_keywords == {"message", "session_id", "active_function", "search_radius"}

\* _property_search_agent, _recommendation_agent, _general_agent: the completion, or an apology
llm_agent(agent_name, llm_response) ==
    IF llm_response # "None"
    THEN Outcome("llm_agent", "none", <<>>, -1, -1, FALSE,
                 Response(agent_name, "none", 90, Text("llm", llm_response = "notfound", -1, FALSE), <<>>))
    ELSE Outcome("llm_agent", "none", <<>>, -1, -1, FALSE,
                 Response(agent_name, "none", 30, Text("fixed", FALSE, -1, FALSE), <<>>))

\* analyze_query(message, session_id, active_function=None, search_radius=500)
DefaultRadius == 500

\* route_message(message, session_id): _property_analysis_agent calls
\* analyze_query(message, session_id), so the mode flag and the radius are the defaults
route_message(message, facts, geo_reply, intent_reply, llm_response) ==
    With(RoutedAgent(message), LAMBDA agent :
        IF agent = "property_analysis"
        THEN analyze_query(message, facts, "None", DefaultRadius, geo_reply, intent_reply, llm_response)
        ELSE llm_agent(agent, llm_response))

----------------------------------------------------------------------------
(* The replies a call asks its environment for.  silent is the outcome of  *)
(* the call when the completion service gives nothing.                     *)

ModeFlags == {"None", "geo", "area"}

IntentNone == [kind |-> "None", value |-> EmptyAnalysis]

\* jageocoder.search is called: the geo handler runs on a detected address
GeocoderAsked(op, message, facts, active_function) ==
    /\ jageocoder
    /\ facts.address # NoneT
    /\ active_function = "geo" \/ (active_function = "None" /\ ~facts.count_only)
    /\ op = "route_message" => RoutedAgent(message) = "property_analysis"

\* get_completion is called with the analysis prompt
IntentAsked(silent) == silent.branch = "complex"

\* get_completion is called with a response prompt
TextAsked(silent) ==
    \/ silent.branch = "llm_agent"
    \/ silent.saved /\ silent.branch # "override_area"

----------------------------------------------------------------------------
(* State.  No handler reads what an earlier call left behind: session_data *)
(* is written and never read, and the chat log reaches the prompt only.    *)
(* A behaviour is therefore one database and one call on it.               *)

\* the SearchIntent of a call that did not ask for one
NoAnalysis == [EmptyAnalysis EXCEPT !.shape = "unused"]

NoLast ==
    [op |-> "none", message |-> <<>>, active_function |-> "None", status |-> 0,
     out |-> Outcome("none", "none", <<>>, -1, -1, FALSE, NoResponse),
     geo_reply |-> -1, intent |-> "unused", llm |-> "unused",
     area |-> <<>>, header_count |-> -1, agent_count |-> -1, input |-> <<>>,
     query_analysis |-> NoAnalysis, hierarchy |-> NoHierarchy,
     outcomes |-> <<>>, score |-> -1, session_id |-> 0, oldest_session |-> 0,
     address |-> NoneT]

Init ==
    /\ db \in Databases
    /\ db_error \in BOOLEAN
    /\ jageocoder \in BOOLEAN
    /\ session_data = [s \in Sessions |-> NoSession]
    /\ chat_sessions = [s \in Sessions |-> <<>>]
    /\ last = NoLast
    /\ pc = "ready"

\* the session store after a call that returned out
Saved(out, message, session_id) ==
    IF out.saved
    THEN save_session_data(session_id, [last_query |-> message, total_count |-> out.total_count])
    ELSE session_data

\* the call op(message, session_id, ...)
Invoke(op, message, facts, active_function, search_radius, geo_reply, intent_reply, llm_response) ==
    IF op = "route_message"
    THEN route_message(message, facts, geo_reply, intent_reply, llm_response)
    ELSE analyze_query(message, facts, active_function, search_radius,
                       geo_reply, intent_reply, llm_response)

\* one call with the replies it asks for, and what it leaves
Serve(op, message, session_id, active_function, search_radius) ==
    \E facts \in {Facts[message]} :
    \E geo_reply \in IF GeocoderAsked(op, message, facts, active_function)
                     THEN GeoReplies ELSE {-1} :
    \E silent \in {Invoke(op, message, facts, active_function, search_radius,
                          geo_reply, IntentNone, "None")} :
    \E intent_reply \in IF IntentAsked(silent) THEN IntentReplies ELSE {IntentNone} :
    \E llm_response \in IF TextAsked(silent) THEN LLMTexts ELSE {"None"} :
    \E out \in {Invoke(op, message, facts, active_function, search_radius,
                       geo_reply, intent_reply, llm_response)} :
        /\ last' = [NoLast EXCEPT
                !.op = op, !.message = message, !.active_function = active_function,
                !.status = 200, !.out = out, !.geo_reply = geo_reply,
                !.intent = IF IntentAsked(silent) THEN intent_reply.kind ELSE "unused",
                !.query_analysis = IF IntentAsked(silent)
                                   THEN analyze_user_query(message, intent_reply)
                                   ELSE NoAnalysis,
                !.llm = IF TextAsked(silent) THEN llm_response ELSE "unused"]
        /\ session_data' = Saved(out, message, session_id)

(* PropertyAnalysisAgent.analyze_query(message, session_id, active_function, search_radius) *)
AnalyzeQuery ==
    /\ pc = "ready"
    /\ \E message \in Messages, session_id \in Sessions, active_function \in ModeFlags,
          search_radius \in Radii :
            Serve("analyze_query", message, session_id, active_function, search_radius)
    /\ pc' = "done"
    /\ UNCHANGED <<db, db_error, jageocoder, chat_sessions>>

(* AIAgentService.route_message(message, session_id) *)
RouteMessage ==
    /\ pc = "ready"
    /\ \E message \in Messages, session_id \in Sessions :
            Serve("route_message", message, session_id, "None", DefaultRadius)
    /\ pc' = "done"
    /\ UNCHANGED <<db, db_error, jageocoder, chat_sessions>>

(* main.chat: POST /chat with ChatRequest(message, session_id, active_function, search_radius). *)
(* requested is 0 when the request names no session.  The user message is logged, then        *)
(* route_message is called with the keywords of chat_call_keywords; a keyword that is not a   *)
(* parameter raises TypeError, which the endpoint turns into HTTP 500.                        *)
Chat ==
    /\ pc = "ready"
    /\ \E message \in Messages, requested \in {0} \cup Sessions, active_function \in ModeFlags,
          search_radius \in Radii :
       \E known \in {requested # 0 /\ chat_sessions[requested] # <<>>} :
       \E fresh \in {{s \in Sessions : chat_sessions[s] = <<>>}} :
          /\ known \/ fresh # {}
          /\ \E session_id \in {IF known THEN requested ELSE Min(fresh)} :
             \E logged \in {[chat_sessions EXCEPT ![session_id] = Append(@, "user")]} :
                IF chat_call_keywords \subseteq route_message_parameters
                THEN \E out \in {route_message(message, Facts[message], -1, IntentNone, "None")} :
                     /\ chat_sessions' = [logged EXCEPT ![session_id] = Append(@, "assistant")]
                     /\ session_data' = Saved(out, message, session_id)
                     /\ last' = [NoLast EXCEPT !.op = "chat", !.message = message,
                                    !.active_function = active_function, !.status = 200, !.out = out]
                ELSE /\ chat_sessions' = logged
                     /\ session_data' = session_data
                     /\ last' = [NoLast EXCEPT !.op = "chat", !.message = message,
                                    !.active_function = active_function, !.status = 500]
    /\ pc' = "done"
    /\ UNCHANGED <<db, db_error, jageocoder>>

\* the area strings of the count consistency test
Areas == { <<"u6771", "u4EAC">>, <<"u5343", "u8449", "u770C", "u8239", "u6A4B", "u5E02">>, <<"u4FDD", "u571F", "u30F6", "u8C37", "u533A">>, <<"u8239", "u6A4B", "u5E02", "u6E4A", "u753A">> }

(* CountConsistencyTester.test_single_case(area) *)
TestSingleCase ==
    /\ pc = "ready"
    /\ \E area \in Areas :
          last' = [NoLast EXCEPT !.op = "test_single_case", !.area = area,
                      !.header_count = get_filtered_count(area),
                      !.agent_count = get_agent_count(area)]
    /\ pc' = "done"
    /\ UNCHANGED <<db, db_error, jageocoder, session_data, chat_sessions>>

Next == AnalyzeQuery \/ RouteMessage \/ Chat \/ TestSingleCase

Spec == Init /\ [][Next]_vars

(* The response composers on their own.  A composer is called with the      *)
(* total_count of the analysis; ComposeSpec calls each deterministic        *)
(* composer, and _generate_ai_response with each kind of completion, on     *)
(* every total_count up to MaxCount.                                        *)

MaxCount == 150     \* the largest total_count a composer is called with

Counts == 0..MaxCount

ComposeInit ==
    /\ db = <<>>
    /\ db_error = FALSE
    /\ jageocoder = FALSE
    /\ session_data = [s \in Sessions |-> NoSession]
    /\ chat_sessions = [s \in Sessions |-> <<>>]
    /\ last = NoLast
    /\ pc = "ready"

\* the composer op was called with total_count and returned text
Composed(op, total_count, text) ==
    last' = [NoLast EXCEPT
        !.op = op,
        !.out = Outcome("none", "none", <<>>, -1, total_count, FALSE,
                        Response("property_analysis", "none", 95, text, <<>>))]

GenerateFallbackResponse ==
    /\ pc = "ready"
    /\ \E total_count \in Counts :
           Composed("generate_fallback_response", total_count,
                    generate_fallback_response(total_count))
    /\ pc' = "done"
    /\ UNCHANGED <<db, db_error, jageocoder, session_data, chat_sessions>>

GenerateAIResponse ==
    /\ pc = "ready"
    /\ \E total_count \in Counts, llm_response \in LLMTexts :
           Composed("generate_ai_response", total_count,
                    generate_ai_response(total_count, llm_response))
    /\ pc' = "done"
    /\ UNCHANGED <<db, db_error, jageocoder, session_data, chat_sessions>>

GenerateGeoFallbackResponse ==
    /\ pc = "ready"
    /\ \E total_count \in Counts :
           Composed("generate_geo_fallback_response", total_count,
                    generate_geo_fallback_response(total_count))
    /\ pc' = "done"
    /\ UNCHANGED <<db, db_error, jageocoder, session_data, chat_sessions>>

GenerateAreaSearchResponse ==
    /\ pc = "ready"
    /\ \E total_count \in Counts :
           Composed("generate_area_search_response", total_count,
                    generate_area_search_response(total_count))
    /\ pc' = "done"
    /\ UNCHANGED <<db, db_error, jageocoder, session_data, chat_sessions>>

ComposeNext ==
    \/ GenerateFallbackResponse \/ GenerateAIResponse
    \/ GenerateGeoFallbackResponse \/ GenerateAreaSearchResponse

ComposeSpec == ComposeInit /\ [][ComposeNext]_vars

(* _remove_duplicates on its own.  DedupSpec calls it on the listings of    *)
(* the database in every order, with and without the '_total_count' that a  *)
(* search puts on the first dict.  input is the list of listings passed;    *)
(* status is 500 when the call raised.                                      *)

\* the orders in which the listings of the database can be passed
Orders ==
    {order \in [DOMAIN db -> DOMAIN db] : \A i, j \in DOMAIN db : order[i] = order[j] => i = j}

DedupInit ==
    /\ db \in Databases
    /\ db_error = FALSE
    /\ jageocoder = FALSE
    /\ session_data = [s \in Sessions |-> NoSession]
    /\ chat_sessions = [s \in Sessions |-> <<>>]
    /\ last = NoLast
    /\ pc = "ready"

(* PropertyAnalysisAgent._remove_duplicates(results) *)
RemoveDuplicates ==
    /\ pc = "ready"
    /\ \E order \in Orders, counted \in BOOLEAN :
       \E rows \in {[i \in DOMAIN db |-> Dict(db[order[i]])]} :
       \E results \in {IF counted /\ rows # <<>> THEN SetFirst(rows, Len(rows), "none") ELSE rows} :
          last' = [NoLast EXCEPT
              !.op = "remove_duplicates",
              !.input = Brief(results),
              !.status = IF RemoveDuplicatesRaises(results) THEN 500 ELSE 200,
              !.out = Outcome("none", "none",
                              IF RemoveDuplicatesRaises(results) THEN <<>>
                              ELSE remove_duplicates(results),
                              -1, -1, FALSE, NoResponse)]
    /\ pc' = "done"
    /\ UNCHANGED <<db, db_error, jageocoder, session_data, chat_sessions>>

DedupNext == RemoveDuplicates

DedupSpec == DedupInit /\ [][DedupNext]_vars

----------------------------------------------------------------------------
(* Properties.  last holds the call that was made and what it returned. *)

(* Specification of _identify_location_hierarchy on texts made of the names *)
(* of a prefecture, a city, a ward and a town, each of them optional.       *)

Prefectures == {<<"u795E", "u5948", "u5DDD", "u770C">>, <<"u4EAC", "u90FD", "u5E9C">>, <<"u5927", "u962A", "u5E9C">>, <<"u5317", "u6D77", "u9053">>}
Cities == {<<"u6A2A", "u6D5C", "u5E02">>, <<"u4EAC", "u90FD", "u5E02">>, <<"u5927", "u962A", "u5E02">>, <<"u672D", "u5E4C", "u5E02">>}
Wards == {<<"u4E2D", "u533A">>, <<"u5317", "u533A">>, <<"u4E2D", "u592E", "u533A">>, <<"u90FD", "u5CF6", "u533A">>}
Towns == {<<"u5C71", "u4E0B", "u753A">>, <<"u672C", "u753A">>}
\* what a user may write between the ward and the town, and after the town
Gaps == {<<>>, <<" ">>}
Tails == {<<>>, <<"u306B", "u3064", "u3044", "u3066">>, <<"u306B", "u3064", "u3044", "u3066", "u306E", "u30C7", "u30FC", "u30BF">>}

HierarchyInit ==
    /\ db = <<>>
    /\ db_error = FALSE
    /\ jageocoder = FALSE
    /\ session_data = [s \in Sessions |-> NoSession]
    /\ chat_sessions = [s \in Sessions |-> <<>>]
    /\ last = NoLast
    /\ pc = "ready"

(* PropertyAnalysisAgent._identify_location_hierarchy(location_text) *)
IdentifyLocationHierarchy ==
    /\ pc = "ready"
    /\ \E prefecture \in Prefectures \cup {<<>>}, city \in Cities \cup {<<>>},
          ward \in Wards \cup {<<>>}, town \in Towns \cup {<<>>},
          gap \in Gaps, tail \in Tails :
       \E location_text \in {prefecture \o city \o ward \o gap \o town \o tail} :
          last' = [NoLast EXCEPT
              !.op = "identify_location_hierarchy",
              !.message = location_text,
              !.status = 200,
              !.hierarchy = identify_location_hierarchy(location_text)]
    /\ pc' = "done"
    /\ UNCHANGED <<db, db_error, jageocoder, session_data, chat_sessions>>

HierarchyNext == IdentifyLocationHierarchy

HierarchySpec == HierarchyInit /\ [][HierarchyNext]_vars

(* Specification of calculate_recommendation_score.  scoring_methods is a   *)
(* list held by the scorer; each method in it is _score_by_listing_date or  *)
(* another method, which returns a score in [0, 100] with a positive weight *)
(* or raises.                                                               *)

MaxMethods == 3     \* scoring methods in the list

\* what a method other than _score_by_listing_date may do
OtherOutcomes ==
    {Raised} \cup {Returned(score, weight) : score \in {0, 5000, 10000}, weight \in {1, 2}}

ScorerInit ==
    /\ db \in {d \in Databases : Len(d) = 1}
    /\ db_error = FALSE
    /\ jageocoder = FALSE
    /\ session_data = [s \in Sessions |-> NoSession]
    /\ chat_sessions = [s \in Sessions |-> <<>>]
    /\ last = NoLast
    /\ pc = "ready"

(* PropertyRecommendationScorer.calculate_recommendation_score(property_data) *)
CalculateRecommendationScore ==
    /\ pc = "ready"
    /\ \E n \in 0..MaxMethods :
       \E outcomes \in [1..n -> {Returned(score_by_listing_date(db[1]), 1)} \cup OtherOutcomes] :
          last' = [NoLast EXCEPT
              !.op = "calculate_recommendation_score",
              !.status = 200,
              !.outcomes = outcomes,
              !.score = normalized_score(outcomes)]
    /\ pc' = "done"
    /\ UNCHANGED <<db, db_error, jageocoder, session_data, chat_sessions>>

ScorerNext == CalculateRecommendationScore

ScorerSpec == ScorerInit /\ [][ScorerNext]_vars

(* Specification of the session store: any sequence of _save_session_data   *)
(* calls, on session ids that are numbered in the order of their keys.  The *)
(* dicts saved are those of the complex search and of the area search.      *)

MaxIds == 6         \* session ids that make requests

SessionIds == 1..MaxIds

SessionDicts ==
    { [last_query |-> <<"a">>, total_count |-> 0],
      [last_query |-> <<"b">>, total_count |-> 1, search_area |-> <<"x">>] }

SessionInit ==
    /\ db = <<>>
    /\ db_error = FALSE
    /\ jageocoder = FALSE
    /\ session_data = [s \in SessionIds |-> NoSession]
    /\ chat_sessions = [s \in Sessions |-> <<>>]
    /\ last = NoLast
    /\ pc = "ready"

(* PropertyAnalysisAgent._save_session_data(session_id, data); oldest_session is *)
(* the key that was deleted, 0 when none was                                     *)
SaveSessionData ==
    /\ pc = "ready"
    /\ \E session_id \in SessionIds, data \in SessionDicts :
          /\ session_data' = save_session_data(session_id, data)
          /\ last' = [NoLast EXCEPT
                 !.op = "save_session_data",
                 !.status = 200,
                 !.session_id = session_id,
                 !.input = data,
                 !.oldest_session =
                     IF Cardinality(Keys(Updated(session_id, data))) > SessionLimit
                     THEN Min(Keys(Updated(session_id, data))) ELSE 0]
    /\ pc' = "ready"
    /\ UNCHANGED <<db, db_error, jageocoder, chat_sessions>>

SessionNext == SaveSessionData

SessionSpec == SessionInit /\ [][SessionNext]_vars

(* Specification of _normalize_location_text, in the agent and in the       *)
(* database service, on the texts made of the characters it replaces, the   *)
(* characters it writes and one character it leaves alone.                  *)

MaxTextLen == 3     \* characters in a text

NormalizerChars == {"u30F6", "u30B1", "u304C", "u30AC", "u30F4", "u30D6", "u533A"}

Texts == UNION {[1..n -> NormalizerChars] : n \in 0..MaxTextLen}

NormalizeInit ==
    /\ db = <<>>
    /\ db_error = FALSE
    /\ jageocoder = FALSE
    /\ session_data = [s \in Sessions |-> NoSession]
    /\ chat_sessions = [s \in Sessions |-> <<>>]
    /\ last = NoLast
    /\ pc = "ready"

(* PropertyAnalysisAgent._normalize_location_text(text), and again on its result *)
AgentNormalize ==
    /\ pc = "ready"
    /\ \E text \in Texts :
          last' = [NoLast EXCEPT
              !.op = "agent_normalize_location_text",
              !.message = text,
              !.status = 200,
              !.input = [once |-> normalize_location_text(text),
                         twice |-> normalize_location_text(normalize_location_text(text))]]
    /\ pc' = "done"
    /\ UNCHANGED <<db, db_error, jageocoder, session_data, chat_sessions>>

(* DatabaseService._normalize_location_text(text), and again on its result *)
DatabaseNormalize ==
    /\ pc = "ready"
    /\ \E text \in Texts :
          last' = [NoLast EXCEPT
              !.op = "database_normalize_location_text",
              !.message = text,
              !.status = 200,
              !.input = [once |-> database_normalize_location_text(text),
                         twice |-> database_normalize_location_text(
                                       database_normalize_location_text(text))]]
    /\ pc' = "done"
    /\ UNCHANGED <<db, db_error, jageocoder, session_data, chat_sessions>>

NormalizeNext == AgentNormalize \/ DatabaseNormalize

NormalizeSpec == NormalizeInit /\ [][NormalizeNext]_vars

(* Specification of _check_direct_location_query.  The table holds listings *)
(* of the pool above and a listing whose structured columns (pref,          *)
(* municipality_name, ward_name, town_name) are NULL, so that only its      *)
(* address tells where it is.                                               *)

DirectPool ==
    << Pool[1], Pool[3], Pool[5],
       Row(8, <<"u5343", "u8449", "u770C", "u8239", "u6A4B", "u5E02", "u672C", "u753A", "2", "-", "1">>, <<"2", "5", "0", "0", "0", "0", "0", "0">>, <<"2", "L", "D", "K">>, NoneT, NoneT, NoneT, NoneT,
           NoneT, 400, <<5>>, 8, <<15>>) >>

DirectInit ==
    /\ db \in {SelectSeq(DirectPool, LAMBDA r : r.id \in S) :
                  S \in SUBSET {DirectPool[i].id : i \in 1..Len(DirectPool)}}
    /\ db_error = FALSE
    /\ jageocoder = FALSE
    /\ session_data = [s \in Sessions |-> NoSession]
    /\ chat_sessions = [s \in Sessions |-> <<>>]
    /\ last = NoLast
    /\ pc = "ready"

(* PropertyAnalysisAgent._check_direct_location_query(message) *)
CheckDirectLocationQuery ==
    /\ pc = "ready"
    /\ \E message \in Messages :
       \E found \in {check_direct_location_query(message, Facts[message].hierarchy)} :
          last' = [NoLast EXCEPT
              !.op = "check_direct_location_query",
              !.message = message,
              !.status = 200,
              !.hierarchy = Facts[message].hierarchy,
              !.out = Outcome("none", found.path, found.results, found.matched, -1, FALSE,
                              NoResponse)]
    /\ pc' = "done"
    /\ UNCHANGED <<db, db_error, jageocoder, session_data, chat_sessions>>

DirectNext == CheckDirectLocationQuery

DirectSpec == DirectInit /\ [][DirectNext]_vars

(* Specification of _detect_address_in_message on single addresses and on   *)
(* range expressions "X kara Y made", where X and Y are a prefecture, a     *)
(* city or ward, a town and possibly a number.                              *)

RangeDelimiter == <<"u304B", "u3089">>
RangeEnd == <<"u307E", "u3067">>

AddressHeads == {<<"u5343", "u8449", "u770C", "u8239", "u6A4B", "u5E02">>, <<"u6771", "u4EAC", "u90FD", "u6E2F", "u533A">>}
AddressTowns == {<<"u672C", "u753A">>, <<"u829D">>}
AddressNumbers == {<<>>, <<"1">>, <<"1", "-", "2">>}

Addresses == {head \o town \o number :
                 head \in AddressHeads, town \in AddressTowns, number \in AddressNumbers}

RangeMessages == Addresses \cup {x \o RangeDelimiter \o y \o RangeEnd : x \in Addresses, y \in Addresses}

DetectInit ==
    /\ db = <<>>
    /\ db_error = FALSE
    /\ jageocoder = FALSE
    /\ session_data = [s \in Sessions |-> NoSession]
    /\ chat_sessions = [s \in Sessions |-> <<>>]
    /\ last = NoLast
    /\ pc = "ready"

(* PropertyAnalysisAgent._detect_address_in_message(message) *)
DetectAddressInMessage ==
    /\ pc = "ready"
    /\ \E message \in RangeMessages :
          last' = [NoLast EXCEPT
              !.op = "detect_address_in_message",
              !.message = message,
              !.status = 200,
              !.address = detect_address_in_message(message)]
    /\ pc' = "done"
    /\ UNCHANGED <<db, db_error, jageocoder, session_data, chat_sessions>>

DetectNext == DetectAddressInMessage

DetectSpec == DetectInit /\ [][DetectNext]_vars

(* Specification of _execute_complex_search on the intents made of a lower  *)
(* and an upper price bound (absent, 0 or 30000000), a prefecture, a city,  *)
(* a station and a floor plan, each absent or given.                        *)

PriceBounds == {<<>>, <<0>>, <<30000000>>}

ComplexIntents ==
    {[EmptyAnalysis EXCEPT !.min_price = min_price, !.max_price = max_price,
                           !.prefectures = prefectures, !.cities = cities,
                           !.stations = stations, !.floor_plan = floor_plan] :
        min_price \in PriceBounds, max_price \in PriceBounds,
        prefectures \in {<<>>, << <<"u5343", "u8449", "u770C">> >>}, cities \in {<<>>, << <<"u8239", "u6A4B">> >>},
        stations \in {<<>>, << <<"u8239", "u6A4B">> >>}, floor_plan \in {<<>>, <<"3", "L", "D", "K">>}}

ComplexInit ==
    /\ db \in Databases
    /\ db_error = FALSE
    /\ jageocoder = FALSE
    /\ session_data = [s \in Sessions |-> NoSession]
    /\ chat_sessions = [s \in Sessions |-> <<>>]
    /\ last = NoLast
    /\ pc = "ready"

(* PropertyAnalysisAgent._execute_complex_search(query_analysis) *)
ExecuteComplexSearch ==
    /\ pc = "ready"
    /\ \E query_analysis \in ComplexIntents :
       \E found \in {execute_complex_search(query_analysis)} :
          last' = [NoLast EXCEPT
              !.op = "execute_complex_search",
              !.status = 200,
              !.query_analysis = query_analysis,
              !.out = Outcome("none", "complex", found.results, found.matched, -1, FALSE,
                              NoResponse)]
    /\ pc' = "done"
    /\ UNCHANGED <<db, db_error, jageocoder, session_data, chat_sessions>>

ComplexNext == ExecuteComplexSearch

ComplexSpec == ComplexInit /\ [][ComplexNext]_vars

(* Specification of _score_by_listing_date.  The value of last_listed_date  *)
(* is None, an empty string, a number, a string that strptime rejects, or   *)
(* a date that lies a whole number of days before now (negative: after).    *)

MaxAge == 200       \* days between the listing date and now, at most

ListedValues ==
    {[kind |-> kind, days |-> 0] : kind \in {"None", "empty", "number", "unparsable"}}
    \cup {[kind |-> "date", days |-> days] : days \in -2..MaxAge}

\* the column as the scorer reads it: the age in days, or nothing when the value is
\* false, not a string, or not a date in either format
listed_days(value) == IF value.kind = "date" THEN <<value.days>> ELSE <<>>

ListingInit ==
    /\ db = <<>>
    /\ db_error = FALSE
    /\ jageocoder = FALSE
    /\ session_data = [s \in Sessions |-> NoSession]
    /\ chat_sessions = [s \in Sessions |-> <<>>]
    /\ last = NoLast
    /\ pc = "ready"

(* PropertyRecommendationScorer._score_by_listing_date(property_data) *)
ScoreByListingDate ==
    /\ pc = "ready"
    /\ \E value \in ListedValues :
          last' = [NoLast EXCEPT
              !.op = "score_by_listing_date",
              !.status = 200,
              !.input = value,
              !.outcomes = <<Returned(score_by_listing_date(
                                 [NoRow EXCEPT !.last_listed_date = listed_days(value)]), 1)>>]
    /\ pc' = "done"
    /\ UNCHANGED <<db, db_error, jageocoder, session_data, chat_sessions>>

ListingNext == ScoreByListingDate

ListingSpec == ListingInit /\ [][ListingNext]_vars

AnalyzeDone == last.op = "analyze_query"
Automatic == last.active_function = "None"
\* get_completion returned None on every call that was made
LLMUnavailable == last.intent \in {"None", "unused"} /\ last.llm \in {"None", "unused"}
\* the branches whose text comes from the completion service
LLMTextBranches == {"direct_location", "complex", "geo_radius", "override_geo"}

\* C1 (as stated): in automatic mode, on every search path, when the query of the path
\* matches no row the analysis total_count is 0 and the text says that nothing was found.
\* The completion service is unavailable, so the text is the deterministic one.
C1_ZeroRowsReportNothingFound ==
    (AnalyzeDone /\ Automatic /\ LLMUnavailable /\ last.out.saved /\ last.out.matched = 0)
        => (last.out.total_count = 0 /\ last.out.response.text.notfound)

\* C2 (as stated): with the completion service unavailable, a message that carries
\* price, floor-plan or location conditions and whose complex search matches at least one
\* listing gets a response that is not the error response and whose property_table is
\* not empty.
C2_TableWithoutLLM ==
    (AnalyzeDone /\ Automatic /\ LLMUnavailable /\ last.out.branch = "complex"
     /\ fallback_query_analysis(last.message) # EmptyAnalysis
     /\ last.out.matched >= 1)
        => (~last.out.response.error /\ last.out.response.property_table # <<>>)

\* C3 (as stated): in the direct-location, complex and geo-radius branches, when
\* total_count > 0 and the completion text says that nothing was found, the text
\* returned is not the completion text.
C3_NotFoundTextReplaced ==
    (AnalyzeDone /\ last.out.branch \in LLMTextBranches /\ last.out.saved
     /\ last.out.total_count > 0 /\ last.llm = "notfound" /\ ~last.out.response.error)
        => last.out.response.text.composer # "llm"

\* C4 (as stated): for every area and database the header count get_filtered_count(area)
\* equals the agent count taken from _search_by_area(area).
C4_HeaderEqualsAgentCount ==
    last.op = "test_single_case" => last.header_count = last.agent_count

C6_CountOnlyIff ==
    (AnalyzeDone /\ Automatic) =>
        /\ last.out.response.query_type = "count_only"
              <=> (CountIntent(Lower(last.message))
                   /\ ~AnyIn(Lower(last.message), complex_keywords))
        /\ (Facts[last.message].address # NoneT /\ CountIntent(Lower(last.message))
                /\ AnyIn(Lower(last.message), complex_keywords))
              => last.out.branch = "geo_radius"

\* a message with a complete address and a count keyword got the count-only response
C6_AddressWithCountKeyword ==
    /\ AnalyzeDone /\ Automatic
    /\ Facts[last.message].address # NoneT
    /\ CountIntent(Lower(last.message))
    /\ last.out.response.query_type = "count_only"

\* C7 (as stated): when a complete address is detected and geocoding is unavailable or
\* gives no coordinates, the response is not the geocoding error.
C7_NoGeocodingError ==
    (AnalyzeDone /\ Automatic /\ ~Facts[last.message].count_only
     /\ Facts[last.message].address # NoneT /\ (~jageocoder \/ last.geo_reply < 0))
        => last.out.response.query_type # "geocoding_error"

\* C8 (as stated): a chat request with the mode flag geo (area) is answered by the geo
\* (area) handler.
C8_ChatFlagSelectsHandler ==
    (last.op = "chat" /\ last.active_function \in {"geo", "area"})
        => (last.status = 200 /\ last.out.branch = "override_" \o last.active_function)

\* C9 (as stated): every element of a result list that a search returned is a listing.
C9_NoFabricatedRow ==
    \A i \in DOMAIN last.out.results : last.out.results[i].id # NoRow.id

\* C10 (as stated): on every path whose search matched a listing, the total_count of the
\* analysis is what COUNT gives over the predicate of the search.  The listings of the
\* database have different addresses, so no two of them are the same listing.
C10_TotalIsCount ==
    (AnalyzeDone /\ last.out.saved /\ last.out.matched >= 1
     /\ \A i, j \in DOMAIN db : i # j => db[i].address # db[j].address)
        => last.out.total_count = last.out.matched

\* the number of listings in a result list (a dict without columns is not a listing)
ListingRows(results) == Cardinality({i \in DOMAIN results : results[i].id # NoRow.id})

\* the branches that answer from _search_by_area, _check_direct_location_query and
\* _execute_complex_search
CountedBranches == {"override_area", "direct_location", "complex"}

\* C11: the total_count that a search puts on its result is at least the number of
\* listing rows of that result.
C11_TotalAtLeastSample ==
    (AnalyzeDone /\ last.out.branch \in CountedBranches /\ last.out.results # <<>>)
        => last.out.results[1].tc >= ListingRows(last.out.results)

\* an area search whose total_count is larger than the listings it returned
C11_TotalAboveSample ==
    /\ AnalyzeDone /\ last.out.branch = "override_area"
    /\ ListingRows(last.out.results) >= 1
    /\ last.out.results[1].tc > ListingRows(last.out.results)

\* C12 (as stated): a listing whose mi_price is NULL, '' or '0' is neither returned by a
\* search of analyze_query nor counted in the count-only total (of a database that answers).
C12_InvalidPriceExcluded ==
    (AnalyzeDone /\ ~db_error) =>
        /\ \A i \in DOMAIN last.out.results : \A k \in DOMAIN db :
              db[k].id = last.out.results[i].id => ValidPrice(db[k])
        /\ last.out.branch = "count_only" =>
              last.out.response.text.count = Len(SelectSeq(db, ValidPrice))

\* the operations that compose a text from a total_count
Composers == {"generate_fallback_response", "generate_ai_response",
              "generate_geo_fallback_response", "generate_area_search_response"}

\* C13 (as stated): a text that the code composes holds the refinement block exactly when
\* the total_count is above 100, whichever composer wrote it.
C13_RefinementIffAbove100 ==
    (last.op \in Composers /\ last.out.response.text.composer # "llm")
        => (last.out.response.text.refine <=> last.out.total_count > RefinementThreshold)

\* the listing of the database that a table entry shows
RowOf(id) == db[CHOOSE k \in DOMAIN db : db[k].id = id]

RadiusBranches == {"geo_radius", "override_geo"}

\* C14 (as stated): the property_table has at most 50 entries; after a radius search it is
\* in order of non-decreasing distance from the geocoded point, after any other search in
\* order of non-increasing recommendation score.
C14_TableCappedAndOrdered ==
    AnalyzeDone =>
        \A table \in {last.out.response.property_table} :
            /\ Len(table) <= TableLimit
            /\ \A i, j \in DOMAIN table : i < j =>
                  IF last.out.branch \in RadiusBranches
                  THEN Abs(RowOf(table[i]).pos - last.geo_reply)
                          <= Abs(RowOf(table[j]).pos - last.geo_reply)
                  ELSE calculate_recommendation_score(RowOf(table[i]))
                          >= calculate_recommendation_score(RowOf(table[j]))

\* _remove_duplicates returned
Deduplicated == last.op = "remove_duplicates" /\ last.status = 200

\* the deduplication key of the listing id
KeyOf(id) == duplicate_key(Dict(RowOf(id)))

\* the listings a and b differ at most in the part of the address from the first hyphen on
SameButHouseNumber(a, b) ==
    /\ a.address # NoneT /\ b.address # NoneT
    /\ BeforeFirst(a.address, "-") = BeforeFirst(b.address, "-")
    /\ a.mi_price = b.mi_price
    /\ a.floor_plan = b.floor_plan

\* C15: _remove_duplicates returns one record for each deduplication key of its input, no
\* two records of the result share a key, and of two listings that differ in the house
\* number suffix only at most one is in the result.
C15_OnePerKey ==
    Deduplicated =>
        \A kept \in {last.out.results} :
            /\ \A i, j \in DOMAIN kept : KeyOf(kept[i].id) = KeyOf(kept[j].id) => i = j
            /\ {KeyOf(kept[i].id) : i \in DOMAIN kept}
                  = {KeyOf(last.input[i].id) : i \in DOMAIN last.input}
            /\ \A i, j \in DOMAIN kept :
                  SameButHouseNumber(RowOf(kept[i].id), RowOf(kept[j].id)) => i = j

\* two listings that differ in the house number suffix only were passed and one is kept
C15_SuffixPairCollapsed ==
    /\ Deduplicated
    /\ \E i, j \in DOMAIN last.input :
          /\ RowOf(last.input[i].id).address # RowOf(last.input[j].id).address
          /\ SameButHouseNumber(RowOf(last.input[i].id), RowOf(last.input[j].id))
    /\ Len(last.out.results) = 1

\* C16 (as stated): the record kept for a key has the highest recommendation score among
\* the records of the input with that key.
C16_HighestRankedKept ==
    Deduplicated =>
        \A i \in DOMAIN last.out.results : \A j \in DOMAIN last.input :
            KeyOf(last.input[j].id) = KeyOf(last.out.results[i].id)
                => calculate_recommendation_score(RowOf(last.out.results[i].id))
                      >= calculate_recommendation_score(RowOf(last.input[j].id))


(* C17: the intent that _analyze_user_query returns always has the shape of *)
(* a SearchIntent, and it is the result of the fallback extractor when the  *)
(* LLM gave nothing, gave text that does not parse, or gave a JSON value    *)
(* that is not of that shape.                                               *)
IntentReturned == last.op \in {"analyze_query", "route_message"} /\ last.intent # "unused"

C17_IntentHasShape ==
    IntentReturned =>
        /\ last.query_analysis.shape = "dict"
        /\ last.intent \in {"None", "text"} =>
               last.query_analysis = fallback_query_analysis(last.message)


(* C18: the level that _identify_location_hierarchy returns names the       *)
(* deepest of prefecture, city, ward, town that is not None (and is None    *)
(* exactly when all four are None); for a text made of a prefecture, a      *)
(* city, a ward and a town the four fields are those four units and the     *)
(* level is town.                                                           *)
Identified == last.op = "identify_location_hierarchy"

Deepest(hierarchy) ==
    IF hierarchy.town # NoneT THEN "town"
    ELSE IF hierarchy.ward # NoneT THEN "ward"
    ELSE IF hierarchy.city # NoneT THEN "city"
    ELSE IF hierarchy.prefecture # NoneT THEN "prefecture"
    ELSE "None"

C18_LevelAndFourUnits ==
    Identified =>
        /\ last.hierarchy.level = Deepest(last.hierarchy)
        /\ \A prefecture \in Prefectures, city \in Cities, ward \in Wards, town \in Towns :
               last.message = prefecture \o city \o ward \o town =>
                   last.hierarchy = [prefecture |-> prefecture, city |-> city, ward |-> ward,
                                     town |-> town, level |-> "town"]

\* the first half alone
LevelIsDeepest == Identified => last.hierarchy.level = Deepest(last.hierarchy)


(* C19: calculate_recommendation_score returns a value in [0, 100] that is  *)
(* the weighted average of the scores of the methods that did not raise (a  *)
(* method that raises adds neither its score nor its weight), and the value *)
(* is 0 only when every method raised or scored 0.  Scores are in           *)
(* hundredths of a point.                                                   *)
Scored == last.op = "calculate_recommendation_score"

Survivors(outcomes) == SelectSeq(outcomes, LAMBDA o : ~o.raises)

RECURSIVE SumOf(_)
SumOf(numbers) == IF numbers = <<>> THEN 0 ELSE Head(numbers) + SumOf(Tail(numbers))

WeightedAverage(outcomes) ==
    IF outcomes = <<>> THEN 0
    ELSE SumOf([i \in DOMAIN outcomes |-> outcomes[i].score * outcomes[i].weight])
         \div SumOf([i \in DOMAIN outcomes |-> outcomes[i].weight])

C19_WeightedAverageOfSurvivors ==
    Scored =>
        /\ last.score \in 0..10000
        /\ last.score = WeightedAverage(Survivors(last.outcomes))
        /\ last.score = 0 =>
               \A i \in DOMAIN last.outcomes : last.outcomes[i].raises \/ last.outcomes[i].score = 0

\* one method raised, another scored, and the score is the other one's
C19_FailedMethodSkipped ==
    /\ Scored
    /\ \E i, j \in DOMAIN last.outcomes :
          /\ last.outcomes[i].raises
          /\ ~last.outcomes[j].raises
          /\ last.outcomes[j].score > 0
    /\ last.score > 0


(* C20: when the statements sent to the database raise, each query catches  *)
(* its own exception and counts as a query with no result (a count of 0),   *)
(* the steps of analyze_query that follow it still run, and analyze_query   *)
(* returns a response: the count-only answer gives 0, the handlers and the  *)
(* searches answer with an empty list and the reply for nothing found, and  *)
(* the complex search is still made after the direct search and saves a     *)
(* total_count of 0.  The error response is returned only for an intent     *)
(* that is not a dict.                                                      *)
DatabaseFailed == AnalyzeDone /\ db_error

C20_CountOnlyOfFailedDatabase ==
    DatabaseFailed /\ db # <<>> /\ last.out.branch = "count_only"


(* C21: after every _save_session_data the map holds at most 5 sessions;    *)
(* when the save makes it hold 6, exactly one session is removed, the one   *)
(* with the smallest id in key order, and every other session that was      *)
(* there before the call keeps its data.                                    *)
SessionSaved == last.op = "save_session_data"

C30_SavedDataReadable ==
    SessionSaved =>
        /\ get_session_data(last.session_id) # NoSession
        /\ \A k \in DOMAIN last.input :
              /\ k \in DOMAIN get_session_data(last.session_id)
              /\ get_session_data(last.session_id)[k] = last.input[k]


(* C22: a request that analyze_query ends with its error response leaves    *)
(* the session store as it was before the request.                          *)
C22_ErrorLeavesSessionAlone ==
    [][ (AnalyzeDone' /\ last'.out.response.error) => session_data' = session_data ]_vars


(* C23: _normalize_location_text is idempotent, in the agent and in the     *)
(* database service: normalizing a normalized text gives the same text.     *)
NormalizedTwice ==
    last.op \in {"agent_normalize_location_text", "database_normalize_location_text"}

C23_NormalizeIdempotent == NormalizedTwice => last.input.twice = last.input.once

\* a text that the agent's normalization changed
C23_TextChanged ==
    /\ last.op = "agent_normalize_location_text"
    /\ last.input.once # last.message
    /\ \E i \in DOMAIN last.message : last.message[i] = "u30F4"


(* C24: in _check_direct_location_query, when the hierarchical predicate    *)
(* matches no valid-price row, the fallback looks in the address column for *)
(* the parsed components that are not None, joined in the order prefecture, *)
(* city, ward, town, and for nothing else: every listing whose address      *)
(* holds that text is found (up to duplicates) and nothing else is.         *)
DirectChecked == last.op = "check_direct_location_query"

Component(x) == IF x = NoneT THEN <<>> ELSE x

Components(hierarchy) ==
    Component(hierarchy.prefecture) \o Component(hierarchy.city)
    \o Component(hierarchy.ward) \o Component(hierarchy.town)

\* the exact-address search found nothing and the hierarchy matches no valid-price row
FallbackMade ==
    /\ DirectChecked
    /\ last.hierarchy.level # "None"
    /\ AddressRows(Strip(last.message)) = <<>>
    /\ \A k \in DOMAIN db : ~(build_hierarchical_query(last.hierarchy, db[k]) /\ ValidPrice(db[k]))

C24_FallbackTermIsComponents ==
    FallbackMade =>
        LET rows == AddressRows(Components(last.hierarchy)) IN
        /\ \A i \in DOMAIN last.out.results :
              \E k \in DOMAIN rows : rows[k].id = last.out.results[i].id
        /\ \A k \in DOMAIN rows :
              \E i \in DOMAIN last.out.results : KeyOf(last.out.results[i].id) = KeyOf(rows[k].id)


(* C25: a town that _identify_location_hierarchy returns has at least 2     *)
(* characters, holds no whitespace and none of the two punctuation marks,   *)
(* is not made of digits only and does not end with one of the suffixes of  *)
(* invalid_suffixes.                                                        *)
TownPunctuation == {"u3002", "u3001"}

C25_TownIsCleanToken ==
    (Identified /\ last.hierarchy.town # NoneT) =>
        /\ Len(last.hierarchy.town) >= 2
        /\ \A i \in DOMAIN last.hierarchy.town :
              last.hierarchy.town[i] \notin RxSpace \cup TownPunctuation
        /\ ~IsDigitStr(last.hierarchy.town)
        /\ \A k \in DOMAIN invalid_suffixes : ~EndsWith(last.hierarchy.town, invalid_suffixes[k])

(* C26: the address that _detect_address_in_message returns never spans a   *)
(* range delimiter: it does not contain the delimiter kara, so it covers    *)
(* no text on both sides of it.                                             *)
Detected == last.op = "detect_address_in_message"

C26_AddressStopsAtDelimiter ==
    (Detected /\ last.address # NoneT) => ~Contains(last.address, RangeDelimiter)

\* a range expression in which an address was detected
C26_RangeDetected ==
    Detected /\ Contains(last.message, RangeDelimiter) /\ last.address # NoneT

(* C27: the rows selected by _execute_complex_search are exactly the rows   *)
(* that satisfy every supplied condition group at once: price >= min and    *)
(* price <= max when given (a bound of 0 included), some supplied           *)
(* prefecture in pref or address, some supplied city or area in address,    *)
(* pref or traffic1, some supplied station in traffic1, the floor plan in   *)
(* floor_plan; a group that is not supplied imposes no constraint.          *)
ComplexSearched == last.op = "execute_complex_search"

\* a row satisfies every condition group that query_analysis supplies
SatisfiesSupplied(query_analysis, r) ==
    /\ query_analysis.min_price # <<>> =>
           r.mi_price # NoneT /\ CastInt(r.mi_price) >= query_analysis.min_price[1]
    /\ query_analysis.max_price # <<>> =>
           r.mi_price # NoneT /\ CastInt(r.mi_price) <= query_analysis.max_price[1]
    /\ query_analysis.prefectures # <<>> =>
           \E i \in 1..Len(query_analysis.prefectures) :
               Like(r.pref, query_analysis.prefectures[i]) \/ Like(r.address, query_analysis.prefectures[i])
    /\ query_analysis.cities \o query_analysis.areas # <<>> =>
           \E i \in 1..Len(query_analysis.cities \o query_analysis.areas) :
               \/ Like(r.address, (query_analysis.cities \o query_analysis.areas)[i])
               \/ Like(r.pref, (query_analysis.cities \o query_analysis.areas)[i])
               \/ Like(r.traffic1, (query_analysis.cities \o query_analysis.areas)[i])
    /\ query_analysis.stations # <<>> =>
           \E i \in 1..Len(query_analysis.stations) : Like(r.traffic1, query_analysis.stations[i])
    /\ query_analysis.floor_plan # <<>> => Like(r.floor_plan, query_analysis.floor_plan)

\* the ids of the listings of a result list, without the dict that only carries the count
SelectedIds(results) ==
    [i \in 1..Len(SelectSeq(results, LAMBDA d : d.id # NoRow.id)) |->
        SelectSeq(results, LAMBDA d : d.id # NoRow.id)[i].id]

\* the ids of the rows of the table that satisfy every supplied group, in rowid order
SatisfyingIds(query_analysis) ==
    [i \in 1..Len(SelectSeq(db, LAMBDA r : SatisfiesSupplied(query_analysis, r))) |->
        SelectSeq(db, LAMBDA r : SatisfiesSupplied(query_analysis, r))[i].id]

C27_SelectedRowsSatisfyAllGroups ==
    ComplexSearched => SelectedIds(last.out.results) = SatisfyingIds(last.query_analysis)

\* the same, for the intents whose supplied price bounds are not 0
C27_NonZeroBoundsApplied ==
    (/\ ComplexSearched
     /\ last.query_analysis.min_price # <<0>>
     /\ last.query_analysis.max_price # <<0>>) =>
        SelectedIds(last.out.results) = SatisfyingIds(last.query_analysis)

(* C28: the listing-recency score (in hundredths of a point) has the        *)
(* documented breakpoint values: 100 at 0 days or a future date, 80 at 7    *)
(* days, 50 at 30 days, 20 at 90 days, 10 at 180 days or more; a missing or *)
(* unparsable date gives 50; the weight is 1; between two breakpoints the   *)
(* score is linear and it never grows with the age.                         *)
ListingScored == last.op = "score_by_listing_date"

\* the score of a date that lies days before now
AgeScore(days) == score_by_listing_date([NoRow EXCEPT !.last_listed_date = <<days>>])

C28_MissingDateNeutral ==
    (ListingScored /\ last.input.kind # "date") =>
        last.outcomes[1].score = 5000 /\ last.outcomes[1].weight = 1

C28_NonIncreasing ==
    (ListingScored /\ last.input.kind = "date") =>
        /\ last.outcomes[1].weight = 1
        /\ \A younger \in -2..last.input.days : AgeScore(younger) >= last.outcomes[1].score

\* inside a piece (its first day is the day after a breakpoint) the score falls by the
\* same amount every day
C28_LinearInsidePieces ==
    (ListingScored /\ last.input.kind = "date") =>
        \A piece \in {<<0, 7>>, <<7, 30>>, <<30, 90>>, <<90, 180>>} :
            (piece[1] + 3 <= last.input.days /\ last.input.days <= piece[2]) =>
                AgeScore(last.input.days - 2) - AgeScore(last.input.days - 1)
                    = AgeScore(last.input.days - 1) - last.outcomes[1].score

C28_BreakpointValues ==
    (ListingScored /\ last.input.kind = "date") =>
        /\ last.input.days <= 0 => last.outcomes[1].score = 10000
        /\ last.input.days = 7 => last.outcomes[1].score = 8000
        /\ last.input.days = 30 => last.outcomes[1].score = 5000
        /\ last.input.days = 90 => last.outcomes[1].score = 2000
        /\ last.input.days >= 180 => last.outcomes[1].score = 1000

(* C29: whenever a search of analyze_query yields k >= 1 distinct listings  *)
(* after deduplication, the property_table of the response has exactly      *)
(* min(k, 50) entries: every surviving listing, the top-ranked one that     *)
(* carries _total_count included, is displayed up to the cap.               *)

\* the deduplication keys of the listings among the results of the search
SurvivingKeys == {KeyOf(last.out.results[i].id) :
                     i \in {j \in DOMAIN last.out.results : last.out.results[j].id # NoRow.id}}

C29_EverySurvivorDisplayed ==
    (AnalyzeDone /\ ~last.out.response.error /\ last.out.saved /\ SurvivingKeys # {})
        => Len(last.out.response.property_table) = Min({Cardinality(SurvivingKeys), TableLimit})

====
